---- MODULE Spec2Model ----
(***************************************************************************)
(* Selection compiler (src/gromacs/selection/compiler.cpp).                *)
(*                                                                         *)
(* The element tree is a heap of t_selelem records linked by child/next    *)
(* pointers, exactly as in the source; NULL is 0.  Every C function of the *)
(* compiler is an operator that takes the memory and returns the memory    *)
(* after the call; every C loop is a RECURSIVE operator over the loop's    *)
(* local pointers.                                                         *)
(***************************************************************************)
EXTENDS Integers, Sequences, FiniteSets, TLC

\* ------------------------------------------------------------------ bounds
\* Number of atoms in the universal group gall = 1..NAtoms.
NAtoms == 3
\* Longest chain of stacked negations among the normalizer inputs.
MaxNot == 4
\* Resolution of the model's real numbers: one unit of an INT_VALUE is
\* RealUnit units of a REAL_VALUE.
RealUnit == 2

NULL == 0
Atoms == 1 .. NAtoms

VARIABLES
    mem,    \* the heap: elements (t_selelem), value buffers, error raised
    root,   \* sc->root, first element of the SEL_ROOT chain
    pc,     \* position inside SelectionCompiler::compile / the normalizer run
    item,   \* loop cursor of compile's loops over the root chain
    pre,    \* history: the heap as it was before the last normalizer step,
            \* in compile the heap the last pruning of the chain found
    gmx_double  \* GMX_DOUBLE: whether `real` is double (else float)

vars == <<mem, root, pc, item, pre, gmx_double>>

\* ------------------------------------------------------------ t_selelem
\* _gmx_selelem_create: a fresh element of the given type.
NewElem(type) ==
    [ type     |-> type,
      boolt    |-> "NONE",
      flags    |-> IF type = "SEL_ROOT" THEN {}
                   ELSE IF type = "SEL_BOOLEAN" THEN {"SEL_ALLOCVAL", "SEL_ALLOCDATA"}
                   ELSE {"SEL_ALLOCVAL"},
      vtype    |-> IF type = "SEL_BOOLEAN" THEN "GROUP_VALUE" ELSE "NO_VALUE",
      v        |-> NULL,          \* v.u.ptr: a value buffer, or NULL
      child    |-> NULL,
      next     |-> NULL,
      refcount |-> 1,
      name     |-> NULL,          \* 0: no name; n > 0: a name
      evaluate |-> "NULL",
      mempool  |-> FALSE,
      cgrp     |-> {},            \* u.cgrp.index[0..isize-1]
      cgrpsz   |-> 0,             \* u.cgrp.isize (-1: evaluate with a NULL group)
      cgrpown  |-> FALSE,         \* u.cgrp.nalloc_index > 0
      method   |-> "NULL",        \* u.expr.method: the method's name
      meth     |-> {},            \* u.expr.mdata: atoms a static keyword selects
      mflags   |-> {},            \* u.expr.method->flags, u.param->flags
      cdata    |-> FALSE,         \* compiler data allocated
      cdeval   |-> "NULL",        \* cdata->evaluate
      cdflags  |-> {},            \* cdata->flags
      saved    |-> "none",        \* history: cdata->evaluate when cdata was freed
      gmin     |-> NULL,          \* cdata->gmin
      gmax     |-> NULL,          \* cdata->gmax
      live     |-> TRUE,          \* FALSE once sfree()d
      orig     |-> {},            \* history: the atoms the subtree selected
                                  \* among all atoms when it was parsed
      folded   |-> "no",          \* history: what make_static found when it
                                  \* converted the element
      ag       |-> [null |-> TRUE, s |-> {}],
                                  \* history: the group the stored gmin and
                                  \* gmax were computed for
      kidb     |-> <<>>,          \* history: <<gmin, gmax, value>> of each
                                  \* child when evaluate_boolean_minmax_grps
                                  \* was entered
      fin      |-> <<>>,          \* history: what init_root_item read of the
                                  \* child of this root
      analysed |-> FALSE,         \* history: analyze_static was called on it
      pass2    |-> <<>> ]         \* history: the groups the second analysis
                                  \* loop called analyze_static on the child
                                  \* of this root with

\* A value buffer: a group/position (g), or numbers (x, in INT units or in
\* REAL units according to the owner's v.type).
NewBuf(g, x) == [g |-> g, x |-> x, live |-> TRUE]

\* The memory: elements, value buffers, the exception in flight (thrown, and
\* err for what was thrown), the symbol table, the subexpression counter.
EmptyMem == [el |-> <<>>, buf |-> <<>>, err |-> "none", thrown |-> FALSE, sym |-> <<>>,
             subexprn |-> 0]

El(m, p) == m.el[p]
Set(m, p, f, val) == [m EXCEPT !.el[p][f] = val]
AddFlags(m, p, fs) == [m EXCEPT !.el[p].flags = @ \cup fs]
DelFlags(m, p, fs) == [m EXCEPT !.el[p].flags = @ \ fs]
AddCd(m, p, fs) == [m EXCEPT !.el[p].cdflags = @ \cup fs]
DelCd(m, p, fs) == [m EXCEPT !.el[p].cdflags = @ \ fs]
Throw(m, e) == IF m.thrown THEN m ELSE [m EXCEPT !.err = e, !.thrown = TRUE]

\* Sequencing: the call v is completed, then its result is handed to the
\* code K that follows it.
Bind(v, K(_)) == IF {v} # {} THEN K(v) ELSE K(v)

\* The statements "v; K" on the memory: the call v is completed, and K runs
\* on the memory it leaves unless v has thrown.
Do(v, K(_)) == IF v.thrown THEN v ELSE K(v)

\* snew of an element / of a value buffer; the new address is the length.
Alloc(m, e) == [m EXCEPT !.el = Append(@, e)]
Last(m) == Len(m.el)
AllocBuf(m, b) == [m EXCEPT !.buf = Append(@, b)]
LastBuf(m) == Len(m.buf)

\* The children of p in list order, following next pointers.
RECURSIVE ChainFrom(_, _)
ChainFrom(m, c) ==
    IF c = NULL THEN <<>> ELSE <<c>> \o ChainFrom(m, El(m, c).next)

Children(m, p) == ChainFrom(m, El(m, p).child)

IsBool(m, p, op) == El(m, p).type = "SEL_BOOLEAN" /\ El(m, p).boolt = op
IsDyn(m, p) == "SEL_DYNAMIC" \in El(m, p).flags

\* ------------------------------------------------- selelem.cpp (not in src/)
\* _gmx_selelem_set_vtype.
SetVType(m, p, vtype) ==
    LET m1 == Set(m, p, "vtype", vtype)
    IN  IF vtype \in {"GROUP_VALUE", "POS_VALUE"}
        THEN AddFlags(m1, p, {"SEL_ALLOCDATA"}) ELSE m1

\* _gmx_selelem_free_compiler_data (compiler.cpp): restores the real
\* evaluation function and frees the annotation with its gmin/gmax.
FreeCompilerData(m, p) ==
    IF El(m, p).cdata
    THEN LET e  == El(m, p)
             m1 == Set(m, p, "evaluate", e.cdeval)
             m2 == IF "SEL_CDATA_MINMAXALLOC" \in e.cdflags
                   THEN [m1 EXCEPT !.buf[e.gmin].live = FALSE,
                                   !.buf[e.gmax].live = FALSE]
                   ELSE m1
         IN  [m2 EXCEPT !.el[p].cdata = FALSE, !.el[p].cdeval = "NULL",
                        !.el[p].saved = e.cdeval,
                        !.el[p].cdflags = {}, !.el[p].gmin = NULL,
                        !.el[p].gmax = NULL]
    ELSE m

\* _gmx_selelem_free_values: releases the value storage the element owns.
FreeValues(m, p) ==
    LET e  == El(m, p)
        m1 == IF "SEL_ALLOCDATA" \in e.flags /\ e.v # NULL
                 /\ e.vtype \in {"GROUP_VALUE", "POS_VALUE"}
              THEN [m EXCEPT !.buf[e.v].g = {}] ELSE m
        m2 == IF "SEL_ALLOCVAL" \in e.flags /\ e.v # NULL
              THEN [m1 EXCEPT !.buf[e.v].live = FALSE] ELSE m1
    IN  Set(m2, p, "v", NULL)

\* _gmx_selelem_free_exprdata: method data, and the evaluation group.
FreeExprData(m, p) ==
    LET e  == El(m, p)
        m1 == IF e.type \in {"SEL_EXPRESSION", "SEL_MODIFIER"}
              THEN [m EXCEPT !.el[p].meth = {}, !.el[p].mflags = {},
                       !.el[p].method = "NULL"] ELSE m
    IN  IF e.type \in {"SEL_SUBEXPR", "SEL_ROOT"}
           \/ (e.type = "SEL_CONST" /\ e.vtype = "GROUP_VALUE")
        THEN [m1 EXCEPT !.el[p].cgrp = {}, !.el[p].cgrpsz = 0,
                        !.el[p].cgrpown = FALSE]
        ELSE m1

\* _gmx_selelem_free / _gmx_selelem_free_chain: drop one reference; the
\* element and its children go when the last reference goes.
RECURSIVE FreeElem(_, _), FreeChain(_, _)
FreeElem(m, p) ==
    IF El(m, p).refcount > 1 THEN Set(m, p, "refcount", El(m, p).refcount - 1)
    ELSE Do(FreeChain(Set(m, p, "refcount", El(m, p).refcount - 1), El(m, p).child),
            LAMBDA m2 :
         [FreeCompilerData(FreeExprData(FreeValues(m2, p), p), p)
              EXCEPT !.el[p].live = FALSE, !.el[p].child = NULL, !.el[p].next = NULL])

FreeChain(m, first) ==
    IF first = NULL THEN m
    ELSE Do(FreeElem(m, first), LAMBDA m1 : FreeChain(m1, El(m, first).next))

\* ------------------------------------------------ the parser (not in src/)
\* A parsed expression is a term [k, s, n, c]: kind, atom set, number,
\* operand terms.  ParseTerm builds the elements the parser would hand to
\* the compiler and returns the memory and the address of the term's top.
Term(k, s, n, c) == [k |-> k, s |-> s, n |-> n, c |-> c]

\* Links the elements of a sequence of addresses with next pointers.
RECURSIVE LinkChain(_, _)
LinkChain(m, ps) ==
    IF Len(ps) <= 1 THEN m
    ELSE LinkChain(Set(m, ps[1], "next", ps[2]), Tail(ps))

ValFlags == {"SEL_SINGLEVAL", "SEL_ATOMVAL", "SEL_VARNUMVAL", "SEL_DYNAMIC"}

\* _gmx_sel_init_position: the positions of the group expression p, as a
\* kw_pos expression -> SEL_SUBEXPRREF (the group parameter, its value stored
\* in the method's parameter) -> p.  A parameter that is already a reference
\* is used as is.
InitPosition(m, p) ==
    LET e    == El(m, p)
        m1   == AllocBuf(m, NewBuf({}, 0))
        pbuf == LastBuf(m1)
        isref == e.type = "SEL_SUBEXPRREF"
        m2   == IF isref THEN m1
                ELSE Alloc(m1, [NewElem("SEL_SUBEXPRREF") EXCEPT
                         !.vtype = e.vtype, !.child = p, !.orig = e.orig,
                         !.flags = {"SEL_ALLOCDATA"} \cup (e.flags \cap ValFlags)])
        ref  == IF isref THEN p ELSE Last(m2)
        m3   == [m2 EXCEPT !.el[ref].flags = @ \ {"SEL_ALLOCVAL"},
                           !.el[ref].v = pbuf,
                           !.el[ref].mflags = {"SPAR_DYNAMIC"}]
        m5   == Alloc(m3, [NewElem("SEL_EXPRESSION") EXCEPT
                    !.vtype = "POS_VALUE", !.method = "kw_pos", !.child = ref,
                    !.mflags = {"SMETH_DYNAMIC", "SMETH_VARNUMVAL"},
                    !.flags = {"SEL_ALLOCVAL", "SEL_ALLOCDATA", "SEL_DYNAMIC",
                               "SEL_VARNUMVAL"}])
    IN  [m |-> m5, p |-> Last(m5)]

RECURSIVE ParseTerm(_, _), ParseTerms(_, _)
ParseTerms(m, ts) ==
    IF ts = <<>> THEN [m |-> m, ps |-> <<>>]
    ELSE Bind(ParseTerm(m, ts[1]), LAMBDA r1 :
         Bind(ParseTerms(r1.m, Tail(ts)), LAMBDA r2 :
         [m |-> r2.m, ps |-> <<r1.p>> \o r2.ps]))

ParseTerm(m, t) == Bind(ParseTerms(m, t.c), LAMBDA kids :
    LET km   == kids.m
        anyDyn == \E i \in 1 .. Len(kids.ps) : IsDyn(km, kids.ps[i])
        dynf == IF anyDyn THEN {"SEL_DYNAMIC"} ELSE {}
        kid(i) == El(km, kids.ps[i])
        \* history: what the term selects among all atoms
        orig == CASE t.k \in {"S", "G"} -> t.s
                  [] t.k = "NOT" -> Atoms \ kid(1).orig
                  [] t.k = "AND" ->
                       {a \in Atoms : \A i \in 1 .. Len(kids.ps) : a \in kid(i).orig}
                  [] t.k = "OR" ->
                       {a \in Atoms : \E i \in 1 .. Len(kids.ps) : a \in kid(i).orig}
                  [] OTHER -> {}
        mk(e) == LET m1 == Alloc(km, [e EXCEPT !.orig = orig])
                     p  == Last(m1)
                     m2 == IF kids.ps = <<>> THEN m1
                           ELSE Set(LinkChain(m1, kids.ps), p, "child", kids.ps[1])
                 IN  [m |-> m2, p |-> p]
        base(type) == NewElem(type)
    IN  CASE t.k = "S" ->      \* static group keyword, e.g. resname
                mk([base("SEL_EXPRESSION") EXCEPT
                       !.vtype = "GROUP_VALUE", !.method = "keyword", !.meth = t.s,
                       !.flags = @ \cup {"SEL_ALLOCDATA", "SEL_SINGLEVAL"}])
          [] t.k = "D" ->      \* dynamic group method without expression parameters
                mk([base("SEL_EXPRESSION") EXCEPT
                       !.vtype = "GROUP_VALUE", !.method = "dynamic",
                       !.mflags = {"SMETH_DYNAMIC"},
                       !.flags = @ \cup {"SEL_ALLOCDATA", "SEL_SINGLEVAL", "SEL_DYNAMIC"}])
          [] t.k = "W" ->      \* dynamic method with a position parameter: within
                LET pos == InitPosition(km, kids.ps[1])
                    m1  == AllocBuf(pos.m, NewBuf({}, 0))
                    m2  == Alloc(m1, [base("SEL_SUBEXPRREF") EXCEPT
                               !.vtype = "POS_VALUE", !.child = pos.p,
                               !.v = LastBuf(m1),
                               !.mflags = {"SPAR_DYNAMIC", "SPAR_VARNUM"},
                               !.flags = {"SEL_ALLOCDATA", "SEL_DYNAMIC",
                                          "SEL_VARNUMVAL"}])
                IN  [m |-> Alloc(m2, [base("SEL_EXPRESSION") EXCEPT
                               !.vtype = "GROUP_VALUE", !.method = "dynamic",
                               !.mflags = {"SMETH_DYNAMIC"}, !.child = Last(m2),
                               !.flags = @ \cup {"SEL_ALLOCDATA", "SEL_SINGLEVAL",
                                                 "SEL_DYNAMIC"}]),
                     p |-> Len(m2.el) + 1]
          [] t.k = "WW" ->     \* dynamic method with two position parameters
                               \* that share one subexpression without a name
                LET pos == InitPosition(km, kids.ps[1])
                    m1  == Alloc(pos.m, [base("SEL_SUBEXPR") EXCEPT
                               !.vtype = "POS_VALUE", !.child = pos.p,
                               !.refcount = 2,
                               !.flags = {"SEL_ALLOCDATA", "SEL_DYNAMIC",
                                          "SEL_VARNUMVAL"}])
                    sub == Last(m1)
                    par(mm) ==
                        LET mb == AllocBuf(mm, NewBuf({}, 0))
                        IN  Alloc(mb, [base("SEL_SUBEXPRREF") EXCEPT
                                !.vtype = "POS_VALUE", !.child = sub,
                                !.v = LastBuf(mb),
                                !.mflags = {"SPAR_DYNAMIC", "SPAR_VARNUM"},
                                !.flags = {"SEL_ALLOCDATA", "SEL_DYNAMIC",
                                           "SEL_VARNUMVAL"}])
                    m2  == par(m1)
                    m3  == par(m2)
                    m4  == Set(m3, Last(m2), "next", Last(m3))
                IN  [m |-> Alloc(m4, [base("SEL_EXPRESSION") EXCEPT
                               !.vtype = "GROUP_VALUE", !.method = "dynamic",
                               !.mflags = {"SMETH_DYNAMIC"}, !.child = Last(m2),
                               !.flags = @ \cup {"SEL_ALLOCDATA", "SEL_SINGLEVAL",
                                                 "SEL_DYNAMIC"}]),
                     p |-> Len(m4.el) + 1]
          [] t.k = "C" ->      \* dynamic method with a per-atom parameter: x > 1
                LET m1  == AllocBuf(km, NewBuf({}, 0))
                    m2  == Alloc(m1, [base("SEL_SUBEXPRREF") EXCEPT
                               !.vtype = kid(1).vtype, !.child = kids.ps[1],
                               !.v = LastBuf(m1),
                               !.mflags = {"SPAR_DYNAMIC", "SPAR_ATOMVAL"},
                               !.flags = {"SEL_ALLOCDATA", "SEL_ATOMVAL"} \cup dynf])
                IN  [m |-> Alloc(m2, [base("SEL_EXPRESSION") EXCEPT
                               !.vtype = "GROUP_VALUE", !.method = "dynamic",
                               !.mflags = {"SMETH_DYNAMIC"}, !.child = Last(m2),
                               !.flags = @ \cup {"SEL_ALLOCDATA", "SEL_SINGLEVAL",
                                                 "SEL_DYNAMIC"}]),
                     p |-> Len(m2.el) + 1]
          [] t.k = "G" ->      \* external index group
                mk([base("SEL_CONST") EXCEPT
                       !.vtype = "GROUP_VALUE", !.cgrp = t.s,
                       !.cgrpsz = Cardinality(t.s), !.cgrpown = TRUE,
                       !.flags = @ \cup {"SEL_ALLOCDATA", "SEL_SINGLEVAL"}])
          [] t.k \in {"NOT", "AND", "OR", "XOR"} ->
                mk([base("SEL_BOOLEAN") EXCEPT
                       !.boolt = t.k,
                       !.flags = @ \cup {"SEL_SINGLEVAL"} \cup dynf])
          [] t.k = "V" ->      \* reference to variable number t.n
                LET sub == km.sym[t.n]
                    m1  == Alloc(km, [base("SEL_SUBEXPRREF") EXCEPT
                               !.vtype = El(km, sub).vtype,
                               !.name  = El(km, sub).name,
                               !.child = sub,
                               !.orig  = El(km, sub).orig,
                               !.flags = @ \cup (El(km, sub).flags \ {"SEL_ALLOCVAL"})])
                IN  [m |-> Set(m1, sub, "refcount", El(m1, sub).refcount + 1),
                     p |-> Last(m1)]
          [] t.k \in {"IC", "RC", "SC"} ->   \* numeric / string literal
                LET m1 == AllocBuf(km, NewBuf({}, t.n))
                IN  [m |-> Alloc(m1, [base("SEL_CONST") EXCEPT
                               !.vtype = CASE t.k = "IC" -> "INT_VALUE"
                                           [] t.k = "RC" -> "REAL_VALUE"
                                           [] OTHER -> "STR_VALUE",
                               !.v = LastBuf(m1),
                               !.flags = @ \cup {"SEL_SINGLEVAL"}]),
                     p |-> Len(m1.el) + 1]
          [] t.k \in {"IK", "RK", "RD"} ->   \* per-atom keyword: atomnr, mass, x
                mk([base("SEL_EXPRESSION") EXCEPT
                       !.vtype = IF t.k = "IK" THEN "INT_VALUE" ELSE "REAL_VALUE",
                       !.method = "numeric",
                       !.mflags = IF t.k = "RD" THEN {"SMETH_DYNAMIC"} ELSE {},
                       !.flags = @ \cup {"SEL_ATOMVAL"}
                                   \cup (IF t.k = "RD" THEN {"SEL_DYNAMIC"} ELSE {})])
          [] t.k = "ARITH" ->
                mk([base("SEL_ARITHMETIC") EXCEPT
                       !.vtype = "REAL_VALUE",
                       !.flags = @ \cup {"SEL_ATOMVAL"} \cup dynf])
          [] OTHER ->          \* "GROUPREF": unresolved group reference
                mk([base("SEL_GROUPREF") EXCEPT !.vtype = "GROUP_VALUE"]))

\* _gmx_sel_assign_variable: SEL_ROOT -> SEL_SUBEXPR(name) -> expression,
\* appended to the chain; the variable is entered in the symbol table.
ParseVariable(m, t, name) == Bind(ParseTerm(m, t), LAMBDA r :
    LET e  == El(r.m, r.p)
        vf == e.flags \cap {"SEL_SINGLEVAL", "SEL_ATOMVAL", "SEL_VARNUMVAL", "SEL_DYNAMIC"}
        m1 == Alloc(r.m, [NewElem("SEL_SUBEXPR") EXCEPT
                  !.vtype = e.vtype, !.name = name, !.child = r.p,
                  !.orig = e.orig,
                  !.flags = @ \cup vf
                      \cup (IF e.vtype \in {"GROUP_VALUE", "POS_VALUE"}
                            THEN {"SEL_ALLOCDATA"} ELSE {})])
        sub == Last(m1)
        m2 == Alloc(m1, [NewElem("SEL_ROOT") EXCEPT
                  !.name = name, !.child = sub, !.flags = vf])
    IN  [m |-> [m2 EXCEPT !.sym = Append(@, sub)], p |-> Last(m2)])

\* --------------------------------------------- boolean operation reordering
\* optimize_boolean_expressions: the first loop (recursion into the children
\* and removal of double negations), with the loop's prev and child.
RECURSIVE optimize_boolean_expressions(_, _), OptimizeBooleanChildren(_, _, _, _)
RECURSIVE MergeWalk(_, _)
RECURSIVE OptimizeBooleanMerge(_, _, _, _)

\* while (prev->next) prev = prev->next;
MergeWalk(m, prev) ==
    IF El(m, prev).next # NULL THEN MergeWalk(m, El(m, prev).next) ELSE prev

\* Faulty variant of the second loop: the spliced operands are not linked
\* to the rest of the list.
OptimizeBooleanMergeUnlinked(m, sel, prev, child) ==
    IF child = NULL THEN m
    ELSE IF El(m, child).type = "SEL_BOOLEAN" /\ El(m, child).boolt = El(m, sel).boolt
    THEN LET m1 == IF prev = NULL
                   THEN Set(m, sel, "child", El(m, child).child)
                   ELSE Set(m, prev, "next", El(m, child).child)
             p2 == MergeWalk(m1, IF prev = NULL THEN El(m1, sel).child ELSE prev)
         IN  OptimizeBooleanMerge([m1 EXCEPT !.el[child].live = FALSE], sel, p2, NULL)
    ELSE OptimizeBooleanMerge(m, sel, child, El(m, child).next)

\* Faulty variant of the first loop: a double negation is looked for before
\* the child has been processed, and the expression moved up is not
\* processed at all.
OptimizeBooleanChildrenTopDown(m, sel, prev, child) ==
    IF child = NULL THEN m
    ELSE LET inner == El(m, child).child
         IN  IF IsBool(m, child, "NOT") /\ IsBool(m, inner, "NOT")
             THEN LET x  == El(m, inner).child
                      m2 == IF prev = NULL THEN Set(m, sel, "child", x)
                            ELSE Set(m, prev, "next", x)
                      m3 == Set(m2, x, "next", El(m2, child).next)
                      m4 == Set(Set(m3, inner, "child", NULL), child, "next", NULL)
                  IN  Bind(FreeElem(m4, child), LAMBDA m5 :
                           OptimizeBooleanChildren(m5, sel, x, El(m5, x).next))
             ELSE Bind(optimize_boolean_expressions(m, child), LAMBDA m1 :
                       OptimizeBooleanChildren(m1, sel, child, El(m1, child).next))

\* The second loop: merge subsequent binary operations of sel's own type.
OptimizeBooleanMerge(m, sel, prev, child) ==
    IF child = NULL THEN m
    ELSE IF El(m, child).type = "SEL_BOOLEAN" /\ El(m, child).boolt = El(m, sel).boolt
    THEN LET m1 == IF prev = NULL
                   THEN Set(m, sel, "child", El(m, child).child)
                   ELSE Set(m, prev, "next", El(m, child).child)
             p1 == IF prev = NULL THEN El(m1, sel).child ELSE prev
             p2 == MergeWalk(m1, p1)
             m2 == Set(m1, p2, "next", El(m1, child).next)
             m3 == [m2 EXCEPT !.el[child].live = FALSE,
                              !.el[child].child = NULL, !.el[child].next = NULL]
         IN  OptimizeBooleanMerge(m3, sel, p2, El(m3, p2).next)
    ELSE OptimizeBooleanMerge(m, sel, child, El(m, child).next)

OptimizeBooleanChildren(m, sel, prev, child) ==
    IF child = NULL THEN m
    ELSE Bind(optimize_boolean_expressions(m, child), LAMBDA m1 :
         LET inner == El(m1, child).child
         IN  IF IsBool(m1, child, "NOT") /\ IsBool(m1, inner, "NOT")
             THEN \* move the doubly negated expression up two levels
                  LET x  == El(m1, inner).child
                      m2 == IF prev = NULL THEN Set(m1, sel, "child", x)
                            ELSE Set(m1, prev, "next", x)
                      m3 == Set(m2, x, "next", El(m2, child).next)
                      m4 == Set(Set(m3, inner, "child", NULL), child, "next", NULL)
                  IN  Bind(FreeElem(m4, child), LAMBDA m5 :
                           OptimizeBooleanChildren(m5, sel, x, El(m5, x).next))
             ELSE OptimizeBooleanChildren(m1, sel, child, El(m1, child).next))

optimize_boolean_expressions(m, sel) ==
    Bind(IF El(m, sel).type # "SEL_SUBEXPRREF"
         THEN OptimizeBooleanChildren(m, sel, NULL, El(m, sel).child)
         ELSE m, LAMBDA m1 :
    IF El(m1, sel).type # "SEL_BOOLEAN" \/ El(m1, sel).boolt = "NOT"
    THEN m1
    ELSE OptimizeBooleanMerge(m1, sel, NULL, El(m1, sel).child))

\* reorder_boolean_static_children.  START is the address of the local
\* element `start`; st.sn is start.next.  The loops carry a step budget so
\* that a loop that would not end is reported instead of followed.
START == -1
NextOf(st, p) == IF p = START THEN st.sn ELSE El(st.m, p).next
SetNextOf(st, p, q) ==
    IF p = START THEN [st EXCEPT !.sn = q] ELSE [st EXCEPT !.m = Set(@, p, "next", q)]

\* Faulty variant of the inner loop: dynamic children are not skipped.
SkipDynamicNever(st, prev, next) == [prev |-> prev, next |-> next]

\* while (next && (next->flags & SEL_DYNAMIC)) { prev = next; next = next->next; }
RECURSIVE SkipDynamic(_, _, _)
SkipDynamic(st, prev, next) ==
    IF next # NULL /\ IsDyn(st.m, next)
    THEN SkipDynamic(st, next, El(st.m, next).next)
    ELSE [prev |-> prev, next |-> next]

RECURSIVE ReorderLoop(_, _, _, _)
ReorderLoop(st, prev, child, fuel) ==
    IF NextOf(st, child) = NULL THEN st
    ELSE IF fuel = 0 THEN [st EXCEPT !.m = Throw(@, "nontermination")]
    ELSE Bind(SkipDynamic(st, prev, NextOf(st, prev)), LAMBDA sk :
         IF sk.next = NULL THEN st
         ELSE IF sk.prev # child
         THEN Bind(SetNextOf(st, sk.prev, El(st.m, sk.next).next), LAMBDA s1 :
              Bind(SetNextOf(s1, sk.next, NextOf(s1, child)), LAMBDA s2 :
              ReorderLoop(SetNextOf(s2, child, sk.next), sk.prev, sk.next, fuel - 1)))
         ELSE ReorderLoop(st, NextOf(st, sk.prev), sk.next, fuel - 1))

RECURSIVE reorder_boolean_static_children(_, _), ReorderChildren(_, _)
ReorderChildren(m, child) ==
    IF child = NULL THEN m
    ELSE Bind(reorder_boolean_static_children(m, child), LAMBDA m1 :
              ReorderChildren(m1, El(m1, child).next))

reorder_boolean_static_children(m, sel) ==
    Bind(IF El(m, sel).type # "SEL_SUBEXPRREF"
         THEN ReorderChildren(m, El(m, sel).child) ELSE m, LAMBDA m1 :
    IF El(m1, sel).type = "SEL_BOOLEAN" /\ IsDyn(m1, sel)
    THEN Bind(ReorderLoop([m |-> m1, sn |-> El(m1, sel).child],
                          START, START, Len(m1.el) + 1), LAMBDA st :
              Set(st.m, sel, "child", st.sn))
    ELSE m1)

\* ------------------------------------------ arithmetic expression processing
\* r[0] = child->v.u.i[0]: the implicit conversion of an int to `real`.
\* A double holds every int exactly; a float has a 24 bit significand and
\* takes the nearest representable value, ties to even.
FloatExact == 2 ^ 24
RECURSIVE FloatUlp(_, _)
FloatUlp(a, u) == IF a < FloatExact * u THEN u ELSE FloatUlp(a, 2 * u)
RoundToFloat(i) ==
    LET a == IF i < 0 THEN -i ELSE i
        u == FloatUlp(a, 1)
        q == a \div u
        r == a % u
        n == IF 2 * r > u \/ (2 * r = u /\ q % 2 = 1) THEN (q + 1) * u ELSE q * u
    IN  IF i < 0 THEN -n ELSE n
\* The result in the model's real units (RealUnit units make one).
IntToReal(i) == (IF gmx_double THEN i ELSE RoundToFloat(i)) * RealUnit

RECURSIVE optimize_arithmetic_expressions(_, _), OptimizeArithChildren(_, _)
RECURSIVE ConvertIntConstants(_, _)
OptimizeArithChildren(m, child) ==
    IF child = NULL \/ m.err # "none" THEN m
    ELSE Bind(optimize_arithmetic_expressions(m, child), LAMBDA m1 :
              OptimizeArithChildren(m1, El(m1, child).next))

\* Faulty variant: the converted child keeps its INT_VALUE type.
ConvertIntConstantsKeepType(m, child) ==
    IF child = NULL THEN m
    ELSE IF El(m, child).vtype = "INT_VALUE"
    THEN IF El(m, child).type # "SEL_CONST"
         THEN Throw(m, "InconsistentInputError")
         ELSE LET old == El(m, child).v
                  m1  == AllocBuf(m, NewBuf({}, IntToReal(m.buf[old].x)))
                  m2  == [m1 EXCEPT !.buf[old].live = FALSE]
                  m3  == Set(m2, child, "v", LastBuf(m1))
              IN  ConvertIntConstants(m3, El(m3, child).next)
    ELSE IF El(m, child).vtype # "REAL_VALUE"
    THEN Throw(m, "InternalError")
    ELSE ConvertIntConstants(m, El(m, child).next)

\* Faulty variant: a non-constant integer child raises the error meant for
\* non-numeric children.
ConvertIntConstantsOneError(m, child) ==
    IF child = NULL THEN m
    ELSE IF El(m, child).vtype = "INT_VALUE" /\ El(m, child).type = "SEL_CONST"
    THEN LET old == El(m, child).v
             m1  == AllocBuf(m, NewBuf({}, IntToReal(m.buf[old].x)))
             m2  == [m1 EXCEPT !.buf[old].live = FALSE]
             m3  == Set(Set(m2, child, "v", LastBuf(m1)), child, "vtype", "REAL_VALUE")
         IN  ConvertIntConstants(m3, El(m3, child).next)
    ELSE IF El(m, child).vtype # "REAL_VALUE"
    THEN Throw(m, "InternalError")
    ELSE ConvertIntConstants(m, El(m, child).next)

\* Convert integer constants to reals.
ConvertIntConstants(m, child) ==
    IF child = NULL THEN m
    ELSE IF El(m, child).vtype = "INT_VALUE"
    THEN IF El(m, child).type # "SEL_CONST"
         THEN Throw(m, "InconsistentInputError")
         ELSE LET old == El(m, child).v
                  m1  == AllocBuf(m, NewBuf({}, IntToReal(m.buf[old].x)))
                  m2  == [m1 EXCEPT !.buf[old].live = FALSE]
                  m3  == Set(Set(m2, child, "v", LastBuf(m1)), child, "vtype", "REAL_VALUE")
              IN  ConvertIntConstants(m3, El(m3, child).next)
    ELSE IF El(m, child).vtype # "REAL_VALUE"
    THEN Throw(m, "InternalError")
    ELSE ConvertIntConstants(m, El(m, child).next)

optimize_arithmetic_expressions(m, sel) ==
    Bind(IF El(m, sel).type # "SEL_SUBEXPRREF"
         THEN OptimizeArithChildren(m, El(m, sel).child) ELSE m, LAMBDA m1 :
    IF m1.err # "none" \/ El(m1, sel).type # "SEL_ARITHMETIC"
    THEN m1
    ELSE ConvertIntConstants(m1, El(m1, sel).child))

\* ------------------------------------------------------- the root chain
\* Applies a per-item pass f to every element of the root chain, as the
\* loops of SelectionCompiler::compile do; stops when f has thrown.
RECURSIVE ForEachRoot(_, _, _)
ForEachRoot(f(_, _), m, it) ==
    IF it = NULL \/ m.err # "none" THEN m
    ELSE Bind(f(m, it), LAMBDA m1 : ForEachRoot(f, m1, El(m1, it).next))

\* A parsed collection: variables in the order given, chained by next.
RECURSIVE ParseVariables(_, _, _)
ParseVariables(m, ts, n) ==
    IF ts = <<>> THEN [m |-> m, ps |-> <<>>]
    ELSE Bind(ParseVariable(m, ts[1], n), LAMBDA r1 :
         Bind(ParseVariables(r1.m, Tail(ts), n + 1), LAMBDA r2 :
         [m |-> r2.m, ps |-> <<r1.p>> \o r2.ps]))

\* Names of variables are numbers from VarName0 + 1 on; the generated
\* names "SubExpr N" are the numbers N.
VarName0 == 100

ParseCollection(ts) ==
    Bind(ParseVariables(EmptyMem, ts, VarName0 + 1), LAMBDA r :
         [m |-> LinkChain(r.m, r.ps), root |-> r.ps[1]])

\* ------------------------------------------------ inputs of the normalizer
tS == Term("S", {1}, 0, <<>>)
tD == Term("D", {}, 0, <<>>)
Not(t) == Term("NOT", {}, 0, <<t>>)
Bin(op, a, b) == Term(op, {}, 0, <<a, b>>)
VarRef(n) == Term("V", {}, n, <<>>)

RECURSIVE NotChain(_, _)
NotChain(k, t) == IF k = 0 THEN t ELSE Not(NotChain(k - 1, t))

NormLeaves == {tS, tD}
NormT1 == NormLeaves \cup {Not(l) : l \in NormLeaves}
             \cup {Bin(op, a, b) : op \in {"AND", "OR"}, a \in NormLeaves, b \in NormLeaves}
NormT2 == NormT1 \cup {Not(t) : t \in NormT1}
             \cup {Bin(op, a, b) : op \in {"AND", "OR"}, a \in NormT1, b \in NormT1}
             \cup {Bin("XOR", Bin("XOR", tS, tD), tD), Bin("AND", Bin("XOR", tS, tD), tS)}
NormNots == {NotChain(k, t) : k \in 2 .. MaxNot, t \in NormT1}
             \cup {Bin(op, NotChain(k, t), l) :
                      op \in {"AND", "OR"}, k \in 2 .. MaxNot, t \in NormT1, l \in NormLeaves}
             \cup {Bin(op, l, NotChain(k, Bin(op, tD, tS))) :
                      op \in {"AND", "OR"}, k \in 2 .. MaxNot, l \in NormLeaves}
\* An int literal that a float cannot hold.
BigInt == FloatExact + 1
ArithOperands ==
    { Term("IC", {}, 1, <<>>), Term("IC", {}, BigInt, <<>>), Term("RC", {}, 5, <<>>),
      Term("SC", {}, 1, <<>>), Term("IK", {}, 0, <<>>), Term("RK", {}, 0, <<>>),
      Term("RD", {}, 0, <<>>) }
Arith(a, b) == Term("ARITH", {}, 0, <<a, b>>)
NormArithTerms ==
    {Arith(a, b) : a \in ArithOperands, b \in ArithOperands}
      \cup {Arith(Arith(a, b), c) : a \in ArithOperands, b \in ArithOperands,
                                    c \in {Term("IC", {}, 1, <<>>), Term("RK", {}, 0, <<>>)}}
\* Collections: one variable, or a variable and a second one that refers to
\* it below negations (a double negation across a SEL_SUBEXPRREF edge).
NormInputs ==
    {<<t>> : t \in NormT2 \cup NormNots \cup NormArithTerms}
      \cup {<<Not(t), NotChain(k, VarRef(1))>> : t \in NormLeaves, k \in 1 .. 2}

\* ------------------------------------------------ the normalizer on its own
InitNorm ==
    \E ts \in NormInputs : \E c \in {ParseCollection(ts)} :
            /\ mem = c.m
            /\ root = c.root
            /\ pc = "n0"
            /\ item = NULL
            /\ pre = c.m
            /\ gmx_double \in BOOLEAN

\* The three passes in the order of compile's first loop, run over every
\* root, then run a second time (n3 .. n6) on their own output.
NormBoolean ==
    /\ pc \in {"n0", "n3"}
    /\ \E m1 \in {ForEachRoot(optimize_boolean_expressions, mem, root)} :
           /\ mem' = m1
           /\ pc' = IF m1.err # "none" THEN "failed"
                    ELSE IF pc = "n0" THEN "n1" ELSE "n4"
    /\ pre' = mem
    /\ UNCHANGED <<root, item, gmx_double>>

NormReorder ==
    /\ pc \in {"n1", "n4"}
    /\ \E m1 \in {ForEachRoot(reorder_boolean_static_children, mem, root)} :
           /\ mem' = m1
           /\ pc' = IF m1.err # "none" THEN "failed"
                    ELSE IF pc = "n1" THEN "n2" ELSE "n5"
    /\ pre' = IF pc = "n4" THEN pre ELSE mem
    /\ UNCHANGED <<root, item, gmx_double>>

NormArith ==
    /\ pc \in {"n2", "n5"}
    /\ \E m1 \in {ForEachRoot(optimize_arithmetic_expressions, mem, root)} :
           /\ mem' = m1
           /\ pc' = IF m1.err # "none" THEN "failed"
                    ELSE IF pc = "n2" THEN "n3" ELSE "n6"
    /\ pre' = IF pc = "n5" THEN pre ELSE mem
    /\ UNCHANGED <<root, item, gmx_double>>

NextNorm == NormBoolean \/ NormReorder \/ NormArith
SpecNorm == InitNorm /\ [][NextNorm]_vars

\* ------------------------------------------------ properties: the normalizer
\* Elements that have not been freed.
LiveEl(m) == {p \in DOMAIN m.el : m.el[p].live}
Range(q) == {q[i] : i \in DOMAIN q}
Roots(m) == ChainFrom(m, root)

RECURSIVE Concat(_)
Concat(qs) == IF qs = <<>> THEN <<>> ELSE Head(qs) \o Concat(Tail(qs))

\* The tree below p as addresses: [a: the node, k: the trees of its
\* children in list order]; a SEL_SUBEXPRREF is a leaf.
RECURSIVE Shape(_, _), ShapeSeq(_, _)
Shape(m, p) ==
    [a |-> p,
     k |-> IF El(m, p).type = "SEL_SUBEXPRREF" THEN <<>>
           ELSE ShapeSeq(m, El(m, p).child)]
ShapeSeq(m, c) ==
    IF c = NULL THEN <<>> ELSE <<Shape(m, c)>> \o ShapeSeq(m, El(m, c).next)

\* A tree with every Not(Not(X)) replaced by X, innermost first.
RECURSIVE DropNotNot(_, _)
DropNotNot(m, s) ==
    LET ks == [i \in DOMAIN s.k |-> DropNotNot(m, s.k[i])]
        lift(t) == IF IsBool(m, t.a, "NOT") /\ IsBool(m, t.k[1].a, "NOT")
                   THEN t.k[1].k[1] ELSE t
    IN  [a |-> s.a, k |-> [i \in DOMAIN ks |-> lift(ks[i])]]

\* A tree with every And/Or child of a node of the same operator replaced
\* by that child's operands.
RECURSIVE Flatten(_, _)
Flatten(m, s) ==
    LET ks == [i \in DOMAIN s.k |-> Flatten(m, s.k[i])]
        same(t) == El(m, t.a).type = "SEL_BOOLEAN" /\ El(m, s.a).type = "SEL_BOOLEAN"
                   /\ El(m, s.a).boolt # "NOT" /\ El(m, t.a).boolt = El(m, s.a).boolt
    IN  [a |-> s.a,
         k |-> Concat([i \in DOMAIN ks |-> IF same(ks[i]) THEN ks[i].k ELSE <<ks[i]>>])]

NoNotNot(m) ==
    \A p \in LiveEl(m) : IsBool(m, p, "NOT") => ~IsBool(m, El(m, p).child, "NOT")

\* Number of Not nodes stacked directly on each other from p down.
RECURSIVE StackedNots(_, _)
StackedNots(m, p) ==
    IF p # NULL /\ IsBool(m, p, "NOT") THEN 1 + StackedNots(m, El(m, p).child) ELSE 0

\* C6: after optimize_boolean_expressions no Not has a Not as its direct
\* child, and every tree is the input tree with each Not(Not(X)) replaced
\* by X at the place of the outer Not (and same-operator children merged),
\* all other siblings in their order.
C6_DoubleNegationRemoved ==
    pc \in {"n1", "n4"} =>
        /\ NoNotNot(mem)
        /\ \A i \in DOMAIN Roots(mem) :
              Shape(mem, Roots(mem)[i])
                  = Flatten(pre, DropNotNot(pre, Shape(pre, Roots(pre)[i])))

\* Four stacked Nots in the input, all of them gone.
C6_Witness ==
    /\ pc = "n1"
    /\ \E p \in LiveEl(pre) :
          /\ StackedNots(pre, p) = MaxNot
          /\ \A q \in LiveEl(pre) : StackedNots(pre, q) > 0 => ~mem.el[q].live

\* The operands that are not boolean operations, left to right.
RECURSIVE Frontier(_, _), FrontierSeq(_, _)
Frontier(m, p) ==
    IF El(m, p).type = "SEL_BOOLEAN" THEN FrontierSeq(m, El(m, p).child) ELSE <<p>>
FrontierSeq(m, c) ==
    IF c = NULL THEN <<>> ELSE Frontier(m, c) \o FrontierSeq(m, El(m, c).next)

NoSameOpChild(m) ==
    \A p \in LiveEl(m) :
        El(m, p).type = "SEL_BOOLEAN" /\ El(m, p).boolt # "NOT" =>
            \A i \in DOMAIN Children(m, p) :
                ~IsBool(m, Children(m, p)[i], El(m, p).boolt)

\* C7: after optimize_boolean_expressions no And/Or has a direct child of
\* its own operator, and every remaining boolean node has the same
\* left-to-right sequence of leaf operands as it had in the input.
C7_Flattened ==
    pc \in {"n1", "n4"} =>
        /\ NoSameOpChild(mem)
        /\ \A p \in LiveEl(mem) :
              El(mem, p).type = "SEL_BOOLEAN" => Frontier(mem, p) = Frontier(pre, p)

\* A binary node whose second operand was a negation became a node of three
\* operands: the nested node came up through a double negation.
C7_Witness ==
    /\ pc = "n1"
    /\ \E p \in LiveEl(mem) :
          /\ Len(Children(pre, p)) = 2
          /\ IsBool(pre, Children(pre, p)[2], "NOT")
          /\ Len(Children(mem, p)) = 3
          /\ Children(mem, p)[1] = Children(pre, p)[1]

\* The children of p in the input order, the ones without SEL_DYNAMIC
\* first, each group in its input order.
StaticFirst(m, q) ==
    SelectSeq(q, LAMBDA c : ~IsDyn(m, c)) \o SelectSeq(q, LAMBDA c : IsDyn(m, c))

\* C8: reorder_boolean_static_children ends, and leaves under every boolean
\* node flagged SEL_DYNAMIC its children with the static ones first, both
\* groups in their original order; under any other boolean node the
\* children stay as they were.
C8_StableStaticFirst ==
    /\ mem.err # "nontermination"
    /\ pc = "n2" =>
          \A p \in LiveEl(mem) :
              El(mem, p).type = "SEL_BOOLEAN" =>
                  Children(mem, p) = IF IsDyn(pre, p)
                                     THEN StaticFirst(pre, Children(pre, p))
                                     ELSE Children(pre, p)

\* Four children dynamic, static, dynamic, static before the pass.
C8_Witness ==
    /\ pc = "n2"
    /\ \E p \in LiveEl(mem) :
          /\ IsDyn(pre, p)
          /\ Len(Children(pre, p)) = 4
          /\ [i \in 1 .. 4 |-> IsDyn(pre, Children(pre, p)[i])]
                 = <<TRUE, FALSE, TRUE, FALSE>>
          /\ Children(mem, p) # Children(pre, p)

\* C9: a second run of the three passes over their own error-free output
\* leaves every element as it was: same nodes, links and value types.
C9_Idempotent ==
    pc = "n6" => mem.el = pre.el /\ mem.buf = pre.buf

\* The second run has ended on a tree that the first run reordered and in
\* which it converted an integer constant.
C9_Witness ==
    /\ pc = "n6"
    /\ \E b \in DOMAIN mem.buf : ~mem.buf[b].live
    /\ \E p \in LiveEl(mem) :
          El(mem, p).type = "SEL_ARITHMETIC" /\ Len(Children(mem, p)) = 2

\* The error kinds of the compiler's exceptions.
ErrorKind(e) ==
    CASE e \in {"NotImplementedError", "InconsistentInputError"} -> "UnsupportedExpression"
      [] e \in {"APIError", "InternalError"} -> "InternalInconsistency"
      [] OTHER -> e

ArithKids(m) ==
    UNION {Range(Children(m, p)) :
              p \in {q \in LiveEl(m) : El(m, q).type = "SEL_ARITHMETIC"}}
IntNonConst(m, c) == El(m, c).vtype = "INT_VALUE" /\ El(m, c).type # "SEL_CONST"
NonNumeric(m, c) == El(m, c).vtype \notin {"INT_VALUE", "REAL_VALUE"}
Val(m, c) == m.buf[El(m, c).v].x
Abs(i) == IF i < 0 THEN -i ELSE i

\* What holds of optimize_arithmetic_expressions whatever the value of a
\* converted constant: the outcome, the error, the untouched elements.
ArithOutcome ==
    /\ pc = "n3" =>
          \A c \in ArithKids(pre) :
              /\ El(mem, c).vtype = "REAL_VALUE"
              /\ El(pre, c).vtype = "INT_VALUE" =>
                    El(pre, c).type = "SEL_CONST" /\ El(mem, c).type = "SEL_CONST"
              /\ El(pre, c).vtype = "REAL_VALUE" => El(mem, c) = El(pre, c)
    /\ pc = "failed" =>
          /\ ErrorKind(mem.err) \in {"UnsupportedExpression", "InternalInconsistency"}
          /\ ErrorKind(mem.err) = "UnsupportedExpression" =>
                \E c \in ArithKids(pre) : IntNonConst(pre, c)
          /\ ErrorKind(mem.err) = "InternalInconsistency" =>
                \E c \in ArithKids(pre) : NonNumeric(pre, c)
    /\ pc \in {"n3", "failed"} =>
          \A c \in LiveEl(pre) \ ArithKids(pre) : El(mem, c) = El(pre, c)

\* C10 as stated: every integer constant child becomes a real constant of
\* the same numeric value.
C10_SameValue ==
    /\ ArithOutcome
    /\ pc = "n3" =>
          \A c \in ArithKids(pre) :
              El(pre, c).vtype = "INT_VALUE" => Val(mem, c) = Val(pre, c) * RealUnit

\* C10: optimize_arithmetic_expressions ends with every direct child of
\* every arithmetic node real-valued, or fails with the unsupported-
\* expression error (an integer child that is not a constant) or the
\* internal-consistency error (a child that is not numeric); children of
\* other nodes are untouched.  An integer constant child becomes a real
\* constant holding the integer converted to `real`: the same value in
\* double precision and for up to 24 significant bits, else the nearest
\* float.
C10_ArithmeticPromotion ==
    /\ ArithOutcome
    /\ pc = "n3" =>
          \A c \in ArithKids(pre) :
              El(pre, c).vtype = "INT_VALUE" =>
                  /\ gmx_double \/ Abs(Val(pre, c)) <= FloatExact =>
                         Val(mem, c) = Val(pre, c) * RealUnit
                  /\ Abs(Val(mem, c) - Val(pre, c) * RealUnit) * FloatExact
                         <= Abs(Val(pre, c)) * RealUnit

\* Single precision, an integer constant above 2^24 converted.
C10_Witness ==
    /\ pc = "n3"
    /\ ~gmx_double
    /\ \E c \in ArithKids(pre) :
          /\ El(pre, c).vtype = "INT_VALUE"
          /\ Val(pre, c) > FloatExact
          /\ El(mem, c).vtype = "REAL_VALUE"

\* ===================================================== SelectionCompiler
\* ------------------------------------------------ the parser (not in src/)
\* _gmx_sel_init_selection: SEL_ROOT -> the positions of the group
\* expression.
ParseSelection(m, t, name) == Bind(ParseTerm(m, t), LAMBDA r :
    Bind(InitPosition(r.m, r.p), LAMBDA k :
    LET m6 == Alloc(k.m, [NewElem("SEL_ROOT") EXCEPT
                    !.name = name, !.child = k.p,
                    !.flags = {"SEL_DYNAMIC", "SEL_VARNUMVAL"}])
    IN  [m |-> m6, p |-> Last(m6)]))

\* A collection is a sequence of items <<kind, term>>: "var" assigns the
\* term to the next variable, "sel" adds the term as a selection.
RECURSIVE ParseItems(_, _, _)
ParseItems(m, its, n) ==
    IF its = <<>> THEN [m |-> m, ps |-> <<>>]
    ELSE Bind(IF its[1][1] = "var" THEN ParseVariable(m, its[1][2], n)
              ELSE ParseSelection(m, its[1][2], n), LAMBDA r1 :
         Bind(ParseItems(r1.m, Tail(its), n + 1), LAMBDA r2 :
         [m |-> r2.m, ps |-> <<r1.p>> \o r2.ps]))

ParseSelections(its) ==
    Bind(ParseItems(EmptyMem, its, VarName0 + 1), LAMBDA r :
         [m |-> LinkChain(r.m, r.ps), root |-> r.ps[1]])

\* ------------------------------------------------ unused subexpressions
\* Faulty variant of reverse_selelem_chain: the chain keeps its order.
KeepChainOrder(m, r) == [m |-> m, root |-> r]

\* reverse_selelem_chain, with the loop's item and prev.
RECURSIVE ReverseLoop(_, _, _)
ReverseLoop(m, it, prev) ==
    IF it = NULL THEN [m |-> m, root |-> prev]
    ELSE ReverseLoop(Set(m, it, "next", prev), El(m, it).next, it)

reverse_selelem_chain(m, r) == ReverseLoop(m, r, NULL)

IsUnusedRoot(m, r) ==
    /\ El(m, El(m, r).child).type = "SEL_SUBEXPR"
    /\ El(m, El(m, r).child).refcount = 1

\* The two loops of remove_unused_subexpressions over the reversed chain.
\* The first loop reads root->child without testing root: when every root
\* is unused it runs off the end of the chain.
RECURSIVE RemoveLeading(_, _), RemoveInner(_, _, _)
RemoveLeading(m, r) ==
    IF r = NULL THEN [m |-> Throw(m, "NullDereference"), root |-> NULL]
    ELSE IF IsUnusedRoot(m, r)
    THEN RemoveLeading(FreeElem(m, r), El(m, r).next)
    ELSE [m |-> m, root |-> r]

RemoveInner(m, prev, it) ==
    IF it = NULL THEN m
    ELSE LET next == El(m, it).next
         IN  IF IsUnusedRoot(m, it)
             THEN RemoveInner(FreeElem(Set(m, prev, "next", next), it), prev, next)
             ELSE RemoveInner(m, it, next)

\* Faulty variant of remove_unused_subexpressions: it removes nothing.
RemoveNothing(m, r) == [m |-> m, root |-> r]

remove_unused_subexpressions(m, r) ==
    IF r = NULL THEN [m |-> m, root |-> NULL]
    ELSE Bind(reverse_selelem_chain(m, r), LAMBDA a :
         Bind(RemoveLeading(a.m, a.root), LAMBDA b :
         IF b.root = NULL THEN b
         ELSE reverse_selelem_chain(
                  RemoveInner(b.m, b.root, El(b.m, b.root).next), b.root)))

\* ------------------------------------------------ subexpression extraction
SEL_VALFLAGMASK == {"SEL_FLAGSSET", "SEL_SINGLEVAL", "SEL_ATOMVAL",
                    "SEL_VARNUMVAL", "SEL_DYNAMIC"}

\* while (subexpr && subexpr->next) subexpr = subexpr->next;
RECURSIVE LastOfChain(_, _)
LastOfChain(m, p) ==
    IF p # NULL /\ El(m, p).next # NULL THEN LastOfChain(m, El(m, p).next) ELSE p

\* create_subexpression_name: "SubExpr i" is the number i.
\* Faulty variant of create_subexpression_name: no name is stored.
LeaveNameless(m, sel, i) == m

create_subexpression_name(m, sel, i) == Set(m, sel, "name", i)

\* The block of extract_item_subselections that wraps the child of the
\* reference `child` in a SEL_SUBEXPR under a new SEL_ROOT nr (the wrapper is
\* created unless the child is one already), names it and counts the
\* reference.
WrapChild(m, nr, child) ==
    LET cc  == El(m, child).child
        m3  == IF El(m, cc).type # "SEL_SUBEXPR"
               THEN LET a == Alloc(m, [NewElem("SEL_SUBEXPR") EXCEPT
                                           !.orig = El(m, cc).orig])
                        se == Last(a)
                        b == SetVType(a, se, El(a, child).vtype)
                        c == Set(b, se, "child", cc)
                        d == Set(c, child, "child", se)
                    IN  Set(d, nr, "child", se)
               ELSE Set(m, nr, "child", cc)
        se  == El(m3, nr).child
        m4  == [create_subexpression_name(m3, se, m3.subexprn + 1)
                    EXCEPT !.subexprn = @ + 1]
        m5  == Set(m4, se, "refcount", El(m4, se).refcount + 1)
        vf  == El(m5, child).flags \cap SEL_VALFLAGMASK
    IN  AddFlags(AddFlags(m5, nr, vf), se, vf)

\* Faulty variant of ExtractWrap: it hangs the new root in front of the chain
\* collected so far instead of behind it.
ExtractWrapInFront(m, root_, subexpr, child) ==
    Bind(Alloc(m, NewElem("SEL_ROOT")), LAMBDA m1 :
         [m |-> WrapChild(Set(m1, Last(m1), "next", root_), Last(m1), child),
          root |-> Last(m1),
          subexpr |-> IF root_ = NULL THEN Last(m1) ELSE subexpr])

\* The new SEL_ROOT is appended to the chain root .. subexpr and becomes its
\* last element.  Returns the memory and the loop's root, subexpr.
ExtractWrap(m, root_, subexpr, child) ==
    Bind(Alloc(m, NewElem("SEL_ROOT")), LAMBDA m1 :
         [m |-> WrapChild(IF root_ = NULL THEN m1
                          ELSE Set(m1, subexpr, "next", Last(m1)), Last(m1), child),
          root |-> IF root_ = NULL THEN Last(m1) ELSE root_,
          subexpr |-> Last(m1)])

RECURSIVE extract_item_subselections(_, _), ExtractItemLoop(_, _, _, _)
ExtractItemLoop(m, root_, subexpr, child) ==
    IF child = NULL THEN [m |-> m, root |-> root_]
    ELSE Bind(extract_item_subselections(m, child), LAMBDA x :
         LET m1    == IF root_ = NULL THEN x.m ELSE Set(x.m, subexpr, "next", x.root)
             root1 == IF root_ = NULL THEN x.root ELSE root_
             sub1  == LastOfChain(m1, IF root_ = NULL THEN x.root ELSE subexpr)
             cc    == El(m1, child).child
         IN  IF El(m1, child).type = "SEL_SUBEXPRREF"
                /\ (El(m1, cc).type # "SEL_SUBEXPR" \/ El(m1, cc).name = NULL)
             THEN Bind(ExtractWrap(m1, root1, sub1, child), LAMBDA w :
                  ExtractItemLoop(w.m, w.root, w.subexpr, El(w.m, child).next))
             ELSE ExtractItemLoop(m1, root1, sub1, El(m1, child).next))

extract_item_subselections(m, sel) ==
    ExtractItemLoop(m, NULL, NULL, El(m, sel).child)

\* extract_subexpressions, with the loop's root, sel and next.
RECURSIVE ExtractLoop(_, _, _, _)
ExtractLoop(m, root_, sel, next) ==
    IF next = NULL THEN [m |-> m, root |-> root_]
    ELSE Bind(extract_item_subselections(m, next), LAMBDA x :
         LET it == x.root
             m1 == IF it # NULL /\ root_ # NULL THEN Set(x.m, sel, "next", it) ELSE x.m
             m2 == IF it # NULL THEN Set(m1, LastOfChain(m1, it), "next", next) ELSE m1
             root1 == IF root_ # NULL THEN root_
                      ELSE IF it # NULL THEN it ELSE next
         IN  ExtractLoop(m2, root1, next, El(m2, next).next))

extract_subexpressions(m, sel) ==
    ExtractLoop([m EXCEPT !.subexprn = 0], NULL, sel, sel)

\* ------------------------------------------------ evaluation preparation
\* while (child) { f(child); child = child->next; }
RECURSIVE ForEachChild(_, _, _)
ForEachChild(f(_, _), m, c) ==
    IF c = NULL \/ m.err # "none" THEN m
    ELSE Do(f(m, c), LAMBDA m1 : ForEachChild(f, m1, El(m1, c).next))

\* p->cdata->flags |= fs, for a p reached through a reference.
CdAdd(m, p, fs) ==
    IF El(m, p).cdata THEN AddCd(m, p, fs) ELSE Throw(m, "NullDereference")

\* _gmx_selvalue_setstore.
SetStore(m, p, ptr) == Set(m, p, "v", ptr)

\* _gmx_selvalue_reserve for a group/position structure.
Reserve(m, p) ==
    IF El(m, p).v # NULL THEN m
    ELSE Bind(AllocBuf(m, NewBuf({}, 0)), LAMBDA m1 : Set(m1, p, "v", LastBuf(m1)))

\* Faulty variant of BooleanEvalfunc: a Xor gets the evaluation function of Or.
BooleanEvalfuncXorAsOr(m, sel) ==
    CASE El(m, sel).boolt = "NOT" -> Set(m, sel, "evaluate", "not")
      [] El(m, sel).boolt = "AND" -> Set(m, sel, "evaluate", "and")
      [] OTHER -> Set(m, sel, "evaluate", "or")

\* init_item_evalfunc, case SEL_BOOLEAN: the switch on sel->u.boolt.
BooleanEvalfunc(m, sel) ==
    CASE El(m, sel).boolt = "NOT" -> Set(m, sel, "evaluate", "not")
      [] El(m, sel).boolt = "AND" -> Set(m, sel, "evaluate", "and")
      [] El(m, sel).boolt = "OR" -> Set(m, sel, "evaluate", "or")
      [] OTHER -> Throw(m, "NotImplementedError")

RECURSIVE init_item_evalfunc(_, _)
init_item_evalfunc(m, sel) ==
    Bind(IF El(m, sel).type # "SEL_SUBEXPRREF"
         THEN ForEachChild(init_item_evalfunc, m, El(m, sel).child) ELSE m, LAMBDA m1 :
    LET e == El(m1, sel)
        ev(f) == Set(m1, sel, "evaluate", f)
    IN  IF m1.err # "none" THEN m1
        ELSE CASE e.type = "SEL_CONST" ->
                  IF e.vtype = "GROUP_VALUE" THEN ev("static") ELSE m1
          [] e.type = "SEL_EXPRESSION" -> ev("method")
          [] e.type = "SEL_ARITHMETIC" -> ev("arithmetic")
          [] e.type = "SEL_MODIFIER" ->
                  IF e.vtype # "NO_VALUE" THEN ev("modifier") ELSE m1
          [] e.type = "SEL_BOOLEAN" -> BooleanEvalfunc(m1, sel)
          [] e.type = "SEL_ROOT" -> ev("root")
          [] e.type = "SEL_SUBEXPR" ->
                  ev(IF e.refcount = 2 THEN "subexpr_simple" ELSE "subexpr")
          [] e.type = "SEL_SUBEXPRREF" ->
                  [m1 EXCEPT !.el[sel].name = El(m1, e.child).name,
                             !.el[sel].evaluate =
                                 IF El(m1, e.child).refcount = 2
                                 THEN "subexprref_simple" ELSE "subexprref"]
          [] OTHER -> Throw(m1, "APIError"))

\* Faulty variant of PoolChild: it leaves the body of a subexpression that
\* a pooled reference refers to alone.
PoolChildOnly(m, sel, child) ==
    LET e == El(m, sel)
        c == El(m, child)
    IN  IF \/ (e.type = "SEL_BOOLEAN" /\ "SEL_DYNAMIC" \in c.flags)
           \/ (e.type = "SEL_ARITHMETIC" /\ c.type # "SEL_CONST"
                 /\ "SEL_SINGLEVAL" \notin c.flags)
           \/ (e.type = "SEL_SUBEXPR" /\ e.refcount > 2)
        THEN Set(m, child, "mempool", TRUE) ELSE m

\* The body of the loop of setup_memory_pooling before the recursive call:
\* the child of sel gets the pool, and with it the body of the
\* subexpression it is the only reference to.
PoolChild(m, sel, child) ==
    LET e == El(m, sel)
        c == El(m, child)
        pooled == \/ (e.type = "SEL_BOOLEAN" /\ "SEL_DYNAMIC" \in c.flags)
                  \/ (e.type = "SEL_ARITHMETIC" /\ c.type # "SEL_CONST"
                        /\ "SEL_SINGLEVAL" \notin c.flags)
                  \/ (e.type = "SEL_SUBEXPR" /\ e.refcount > 2)
        m1 == IF pooled THEN Set(m, child, "mempool", TRUE) ELSE m
    IN  IF pooled /\ c.type = "SEL_SUBEXPRREF" /\ El(m, c.child).refcount = 2
        THEN Set(m1, El(m1, c.child).child, "mempool", TRUE) ELSE m1

RECURSIVE setup_memory_pooling(_, _)
SetupPoolChild(m, sel, child) ==
    setup_memory_pooling(PoolChild(m, sel, child), child)

setup_memory_pooling(m, sel) ==
    IF El(m, sel).type # "SEL_SUBEXPRREF"
    THEN ForEachChild(LAMBDA mm, c : SetupPoolChild(mm, sel, c), m, El(m, sel).child)
    ELSE m

RECURSIVE init_item_evaloutput(_, _)
init_item_evaloutput(m, sel) ==
    Bind(IF El(m, sel).type # "SEL_SUBEXPRREF"
         THEN ForEachChild(init_item_evaloutput, m, El(m, sel).child) ELSE m, LAMBDA m1 :
    LET e    == El(m1, sel)
        own  == {"SEL_ALLOCVAL", "SEL_ALLOCDATA"}
        grp  == e.vtype \in {"GROUP_VALUE", "POS_VALUE"}
        ch   == e.child
        m2 == CASE e.type = "SEL_SUBEXPR" /\ e.refcount = 2 ->
                     LET a == DelFlags(m1, sel, own)
                     IN  IF grp THEN SetStore(a, sel, El(a, ch).v) ELSE a
                [] e.type = "SEL_SUBEXPR" /\ e.refcount # 2
                     /\ "SEL_CDATA_FULLEVAL" \in e.cdflags ->
                     LET a == [m1 EXCEPT !.el[sel].evaluate = "subexpr_staticeval",
                                         !.el[sel].cdeval = "subexpr_staticeval",
                                         !.el[ch].mempool = FALSE,
                                         !.el[sel].flags = @ \ own]
                     IN  IF grp THEN SetStore(a, sel, El(a, ch).v) ELSE a
                [] e.type = "SEL_SUBEXPRREF" /\ El(m1, ch).refcount = 2 ->
                     LET cc == El(m1, ch).child
                         a == IF e.v # NULL
                              THEN LET b == FreeValues(SetStore(m1, ch, e.v), cc)
                                       c == DelFlags(b, cc, own)
                                       d == AddFlags(c, cc, e.flags \cap {"SEL_ALLOCDATA"})
                                   IN  SetStore(d, cc, e.v)
                              ELSE IF grp THEN SetStore(m1, sel, El(m1, cc).v)
                              ELSE m1
                     IN  DelFlags(a, sel, own)
                [] OTHER -> m1
    IN  IF m1.err # "none" THEN m1
        ELSE IF El(m2, sel).v = NULL /\ "SEL_ALLOCVAL" \in El(m2, sel).flags /\ grp
        THEN Reserve(m2, sel) ELSE m2)

\* ------------------------------------------- compiler data initialization
IsMethod(e) == e.type \in {"SEL_EXPRESSION", "SEL_MODIFIER"}

\* The first loop of init_item_compilerdata over the parameters of a method:
\* subexpressions whose value is needed for all atoms at once.
FullEvalParam(m, child) ==
    IF "SEL_ATOMVAL" \notin El(m, child).flags /\ El(m, child).child # NULL
    THEN CdAdd(m, El(m, child).child, {"SEL_CDATA_FULLEVAL"}) ELSE m

\* The last loops of init_item_compilerdata: minimum or maximum evaluation.
EvalMaxChild(m, sel, child) ==
    LET e == El(m, sel)
    IN  IF e.type = "SEL_BOOLEAN"
        THEN IF e.boolt = "AND" THEN AddCd(m, child, {"SEL_CDATA_EVALMAX"})
             ELSE IF IsBool(m, child, "NOT")
             THEN AddCd(m, El(m, child).child, {"SEL_CDATA_EVALMAX"})
             ELSE m
        ELSE AddCd(m, child, {"SEL_CDATA_EVALMAX"})

RECURSIVE init_item_compilerdata(_, _)
init_item_compilerdata(m, sel) ==
    LET e  == El(m, sel)
        m1 == [m EXCEPT !.el[sel].cdata = TRUE,
                        !.el[sel].cdeval = e.evaluate,
                        !.el[sel].gmin = NULL, !.el[sel].gmax = NULL,
                        !.el[sel].cdflags =
                            {"SEL_CDATA_STATICEVAL"}
                              \cup (IF "SEL_DYNAMIC" \notin e.flags
                                    THEN {"SEL_CDATA_STATIC"} ELSE {})
                              \cup (IF e.type = "SEL_SUBEXPR"
                                    THEN {"SEL_CDATA_EVALMAX"} ELSE {})]
    IN  Bind(IF IsMethod(e) THEN ForEachChild(FullEvalParam, m1, e.child)
             ELSE IF e.type = "SEL_ROOT" /\ El(m1, e.child).type = "SEL_SUBEXPRREF"
             THEN CdAdd(m1, El(m1, e.child).child, {"SEL_CDATA_FULLEVAL"})
             ELSE m1, LAMBDA m2 :
        Bind(IF e.type # "SEL_SUBEXPRREF"
             THEN ForEachChild(init_item_compilerdata, m2, e.child) ELSE m2, LAMBDA m3 :
        IF m3.err # "none" THEN m3
        ELSE IF e.type = "SEL_BOOLEAN" \/ IsMethod(e) \/ e.type = "SEL_SUBEXPR"
        THEN ForEachChild(LAMBDA mm, c : EvalMaxChild(mm, sel, c), m3, e.child)
        ELSE m3))

RECURSIVE init_item_staticeval(_, _)

\* Faulty variant of AfterFirstDynamic: no operand follows a dynamic one.
NoneAfterDynamic(m, c) == NULL

\* child = first child after the first dynamic one
RECURSIVE AfterFirstDynamic(_, _)
AfterFirstDynamic(m, c) ==
    IF c = NULL THEN NULL
    ELSE IF IsDyn(m, c) THEN El(m, c).next
    ELSE AfterFirstDynamic(m, El(m, c).next)

\* Faulty variant of StaticEvalClearChild: no parameter of a method is
\* touched.
StaticEvalSkipParams(m, sel, child) ==
    IF ~IsMethod(El(m, sel)) /\ "SEL_CDATA_STATICEVAL" \in El(m, child).cdflags
    THEN init_item_staticeval(DelCd(m, child, {"SEL_CDATA_STATICEVAL"}), child)
    ELSE m

\* The loop body of the propagation to the children of sel.
StaticEvalClearChild(m, sel, child) ==
    IF (~IsMethod(El(m, sel)) \/ "SEL_ATOMVAL" \in El(m, child).flags)
       /\ "SEL_CDATA_STATICEVAL" \in El(m, child).cdflags
    THEN init_item_staticeval(DelCd(m, child, {"SEL_CDATA_STATICEVAL"}), child)
    ELSE m

init_item_staticeval(m, sel) ==
    LET e == El(m, sel)
    IN  IF e.type = "SEL_SUBEXPRREF"
           /\ "SEL_CDATA_FULLEVAL" \in El(m, e.child).cdflags
        THEN m
        ELSE IF "SEL_CDATA_STATICEVAL" \notin e.cdflags
        THEN ForEachChild(LAMBDA mm, c : StaticEvalClearChild(mm, sel, c), m, e.child)
        ELSE Bind(IF e.type = "SEL_BOOLEAN"
                  THEN ForEachChild(LAMBDA mm, c : DelCd(mm, c, {"SEL_CDATA_STATICEVAL"}),
                                    m, AfterFirstDynamic(m, e.child))
                  ELSE m, LAMBDA m1 :
             ForEachChild(init_item_staticeval, m1, e.child))

\* Faulty variant of SubexprFlags: a reference is never flagged.
SubexprFlagsNoReference(m, sel) ==
    LET e == El(m, sel)
    IN  IF e.type = "SEL_SUBEXPR"
        THEN IF e.refcount = 2 THEN AddCd(m, sel, {"SEL_CDATA_SIMPLESUBEXPR"})
             ELSE IF "SEL_CDATA_FULLEVAL" \notin e.cdflags
             THEN AddCd(m, sel, {"SEL_CDATA_COMMONSUBEXPR"})
             ELSE m
        ELSE m

\* Faulty variant of SubexprFlags: SEL_CDATA_FULLEVAL is not looked at.
SubexprFlagsCommonAlways(m, sel) ==
    LET e == El(m, sel)
    IN  IF e.type = "SEL_SUBEXPR"
        THEN IF e.refcount = 2 THEN AddCd(m, sel, {"SEL_CDATA_SIMPLESUBEXPR"})
             ELSE AddCd(m, sel, {"SEL_CDATA_COMMONSUBEXPR"})
        ELSE IF e.type = "SEL_SUBEXPRREF" /\ El(m, e.child).refcount = 2
        THEN AddCd(m, sel, {"SEL_CDATA_SIMPLESUBEXPR"})
        ELSE m

\* init_item_subexpr_flags: the flags of sel itself.
SubexprFlags(m, sel) ==
    LET e == El(m, sel)
    IN  IF e.type = "SEL_SUBEXPR"
        THEN IF e.refcount = 2 THEN AddCd(m, sel, {"SEL_CDATA_SIMPLESUBEXPR"})
             ELSE IF "SEL_CDATA_FULLEVAL" \notin e.cdflags
             THEN AddCd(m, sel, {"SEL_CDATA_COMMONSUBEXPR"})
             ELSE m
        ELSE IF e.type = "SEL_SUBEXPRREF" /\ El(m, e.child).refcount = 2
        THEN AddCd(m, sel, {"SEL_CDATA_SIMPLESUBEXPR"})
        ELSE m

RECURSIVE init_item_subexpr_flags(_, _)
SubexprFlagsChild(m, sel, child) ==
    IF "SEL_CDATA_COMMONSUBEXPR" \notin El(m, child).cdflags
    THEN LET e == El(m, sel)
             m1 == IF e.type # "SEL_EXPRESSION" \/ "SEL_ATOMVAL" \in El(m, child).flags
                   THEN AddCd(m, child, e.cdflags \cap {"SEL_CDATA_COMMONSUBEXPR"})
                   ELSE m
         IN  init_item_subexpr_flags(m1, child)
    ELSE m

init_item_subexpr_flags(m, sel) ==
    LET e  == El(m, sel)
        m1 == SubexprFlags(m, sel)
    IN  IF e.type # "SEL_SUBEXPRREF"
           \/ ("SEL_CDATA_COMMONSUBEXPR" \in El(m1, sel).cdflags
                 /\ El(m1, e.child).refcount > 2)
        THEN ForEachChild(LAMBDA mm, c : SubexprFlagsChild(mm, sel, c), m1, e.child)
        ELSE m1

RECURSIVE init_item_minmax_groups(_, _)
init_item_minmax_groups(m, sel) ==
    Bind(IF El(m, sel).type # "SEL_SUBEXPRREF"
         THEN ForEachChild(init_item_minmax_groups, m, El(m, sel).child) ELSE m, LAMBDA m1 :
    LET e == El(m1, sel)
    IN  IF e.type = "SEL_ROOT" \/ e.vtype = "NO_VALUE" THEN m1
        ELSE IF e.vtype = "GROUP_VALUE" /\ "SEL_CDATA_STATIC" \in e.cdflags
        THEN [m1 EXCEPT !.el[sel].gmin = e.v, !.el[sel].gmax = e.v]
        ELSE IF e.type = "SEL_SUBEXPR"
                /\ e.cdflags \cap {"SEL_CDATA_SIMPLESUBEXPR", "SEL_CDATA_FULLEVAL"} # {}
        THEN [m1 EXCEPT !.el[sel].gmin = El(m1, e.child).gmin,
                        !.el[sel].gmax = El(m1, e.child).gmax]
        ELSE Bind(AllocBuf(AllocBuf(m1, NewBuf({}, 0)), NewBuf({}, 0)), LAMBDA m2 :
             [m2 EXCEPT !.el[sel].gmin = LastBuf(m2) - 1,
                        !.el[sel].gmax = LastBuf(m2),
                        !.el[sel].cdflags = @ \cup {"SEL_CDATA_MINMAXALLOC",
                                                     "SEL_CDATA_DOMINMAX"}]))

\* gmx_ana_index_set(&root->u.cgrp, gall.isize, gall.index, name, 0)
InitEvalGrp(m, r) ==
    IF El(m, El(m, r).child).type # "SEL_SUBEXPR"
       \/ "SEL_CDATA_FULLEVAL" \in El(m, El(m, r).child).cdflags
    THEN [m EXCEPT !.el[r].cgrp = Atoms, !.el[r].cgrpsz = NAtoms,
                   !.el[r].cgrpown = FALSE]
    ELSE m

initialize_evalgrps(m, r) == ForEachRoot(InitEvalGrp, m, r)

\* --------------------------------------------------------- index groups
\* An evaluation group handed to an evaluation function: a set of atoms, or
\* the NULL pointer.
G(s) == [null |-> FALSE, s |-> s]
GNULL == [null |-> TRUE, s |-> {}]

\* *dst = val for a group structure dst computed from the structures srcs
\* (gmx_ana_index_copy / _intersection / _difference / _merge / _union).
GOp(m, dst, srcs, val) ==
    IF dst = NULL \/ NULL \in srcs THEN Throw(m, "NullDereference")
    ELSE [m EXCEPT !.buf[dst].g = val]

BufG(m, b) == IF b = NULL THEN {} ELSE m.buf[b].g
\* sel->v.u.g
VG(m, p) == BufG(m, El(m, p).v)

\* gmx_ana_index_deinit.
Deinit(m, b) == IF b = NULL THEN m ELSE [m EXCEPT !.buf[b].g = {}]

\* gmx_ana_index_copy(&sel->u.cgrp, src, bAlloc)
SetCgrp(m, p, s, own) ==
    [m EXCEPT !.el[p].cgrp = s, !.el[p].cgrpsz = Cardinality(s),
              !.el[p].cgrpown = own]

\* alloc_selection_data.
alloc_selection_data(m, sel, bChildEval) ==
    LET e == El(m, sel)
    IN  IF e.mempool THEN m
        ELSE IF e.flags \cap {"SEL_SINGLEVAL", "SEL_ATOMVAL"} = {} /\ ~bChildEval THEN m
        ELSE IF "SEL_ALLOCVAL" \in e.flags THEN Reserve(m, sel)
        ELSE m

\* ------------------------------------------------ subtree bookkeeping
RECURSIVE set_evaluation_function(_, _, _)
set_evaluation_function(m, sel, eval) ==
    Bind(Set(m, sel, "evaluate", eval), LAMBDA m1 :
    IF El(m1, sel).type # "SEL_SUBEXPRREF"
    THEN ForEachChild(LAMBDA mm, c : set_evaluation_function(mm, c, eval),
                      m1, El(m1, sel).child)
    ELSE m1)

\* Faulty variant of MarkChild: the children are left as they are.
MarkNoChild(m, sel, child, bDynamic) == m

RECURSIVE mark_subexpr_dynamic(_, _, _)
MarkChild(m, sel, child, bDynamic) ==
    IF El(m, sel).type # "SEL_EXPRESSION" \/ El(m, child).type # "SEL_SUBEXPRREF"
       \/ "SPAR_ATOMVAL" \in El(m, child).mflags
    THEN mark_subexpr_dynamic(m, child, bDynamic)
    ELSE m

mark_subexpr_dynamic(m, sel, bDynamic) ==
    IF ~El(m, sel).cdata THEN Throw(m, "NullDereference")
    ELSE Bind(IF ~bDynamic /\ ~IsDyn(m, sel)
              THEN AddCd(m, sel, {"SEL_CDATA_STATIC"})
              ELSE DelCd(m, sel, {"SEL_CDATA_STATIC"}), LAMBDA m1 :
         ForEachChild(LAMBDA mm, c : MarkChild(mm, sel, c, bDynamic),
                      m1, El(m1, sel).child))

\* Faulty variant of UsedOnce: any referenced subexpression qualifies.
UsedAtAll(m, sel) == El(m, sel).refcount >= 2

\* if (sel->refcount == 2): the subexpression is used by the reference being
\* folded only.
UsedOnce(m, sel) == El(m, sel).refcount = 2

RECURSIVE release_subexpr_memory(_, _)
release_subexpr_memory(m, sel) ==
    IF El(m, sel).type = "SEL_SUBEXPR"
    THEN IF UsedOnce(m, sel)
         THEN Bind(IF El(m, sel).child = NULL THEN Throw(m, "NullDereference")
                   ELSE release_subexpr_memory(m, El(m, sel).child), LAMBDA m1 :
              Bind(FreeChain(Set(m1, sel, "name", NULL), El(m1, sel).child), LAMBDA m2 :
              Set(FreeCompilerData(FreeExprData(FreeValues(m2, sel), sel), sel),
                  sel, "child", NULL)))
         ELSE m
    ELSE ForEachChild(release_subexpr_memory, m, El(m, sel).child)

\* The ownership transfer at the head of make_static.
TransferOwnership(m, sel) ==
    IF El(m, sel).type = "SEL_SUBEXPRREF"
       /\ "SEL_CDATA_SIMPLESUBEXPR" \in El(m, sel).cdflags
    THEN LET cc  == El(m, El(m, sel).child).child
             own == El(m, cc).flags \cap {"SEL_ALLOCDATA", "SEL_ALLOCVAL"}
         IN  DelFlags(AddFlags(m, sel, own), cc, own)
    ELSE m

\* History: the element make_static is called on is frame-dependent, or
\* static by its annotation, or neither.
FoldedAs(m, sel) ==
    CASE "SEL_DYNAMIC" \in El(m, sel).flags -> "dynamic"
      [] ~El(m, sel).cdata \/ "SEL_CDATA_STATIC" \notin El(m, sel).cdflags -> "unmarked"
      [] OTHER -> "static"

make_static(m, sel) ==
    Bind(release_subexpr_memory(TransferOwnership(m, sel), sel), LAMBDA m1 :
    Bind(FreeChain(m1, El(m1, sel).child), LAMBDA m2 :
    Bind(FreeExprData(Set(m2, sel, "child", NULL), sel), LAMBDA m3 :
    Bind([m3 EXCEPT !.el[sel].name = NULL, !.el[sel].type = "SEL_CONST",
                    !.el[sel].evaluate = "NULL", !.el[sel].cdeval = "NULL",
                    !.el[sel].folded = FoldedAs(m, sel)], LAMBDA m4 :
    IF El(m4, sel).vtype = "GROUP_VALUE"
    THEN IF El(m4, sel).v = NULL THEN Throw(m4, "NullDereference")
         ELSE SetCgrp(m4, sel, VG(m4, sel), FALSE)
    ELSE m4))))

\* ------------------------------------------ evaluate.cpp (not in src/)
\* Every evaluation function takes the element and the evaluation group.
\* Call(m, f, sel, g) is the call (*f)(data, sel, g) through the function
\* pointer f, read from sel->evaluate or from sel->cdata->evaluate;
\* analyze_static is one of the functions the pointer can hold.
RECURSIVE Call(_, _, _, _)
RECURSIVE analyze_static(_, _, _)
RECURSIVE EvalAndLoop(_, _, _), EvalOrLoop(_, _, _, _)

\* sel->evaluate
Evaluate(m, sel) == IF sel = NULL THEN "nullptr" ELSE El(m, sel).evaluate
\* sel->cdata->evaluate
CdEvaluate(m, sel) == IF El(m, sel).cdata THEN El(m, sel).cdeval ELSE "nullptr"

\* _gmx_selelem_mempool_release: a pooled value lives only while the
\* parent uses it.
PoolRelease(m, child) ==
    IF m.err = "none" /\ El(m, child).mempool /\ El(m, child).v # NULL
    THEN [m EXCEPT !.buf[El(m, child).v].g = {}] ELSE m

\* _gmx_sel_evaluate_root
EvalRoot(m, sel) ==
    LET e == El(m, sel)
    IN  IF e.cgrpsz = 0 \/ El(m, e.child).evaluate = "NULL" THEN m
        ELSE Call(m, Evaluate(m, e.child), e.child,
                  IF e.cgrpsz < 0 THEN GNULL ELSE G(e.cgrp))

\* _gmx_sel_evaluate_static
EvalStatic(m, sel, g) ==
    IF g.null THEN Throw(m, "NullDereference")
    ELSE GOp(m, El(m, sel).v, {}, El(m, sel).cgrp \cap g.s)

\* _gmx_sel_evaluate_subexpr_simple
EvalSubexprSimple(m, sel, g) ==
    IF El(m, El(m, sel).child).evaluate # "NULL"
    THEN Call(m, Evaluate(m, El(m, sel).child), El(m, sel).child, g) ELSE m

\* _gmx_sel_evaluate_subexpr_staticeval
EvalSubexprStaticEval(m, sel, g) ==
    IF El(m, sel).cgrpsz = 0
    THEN Do(Call(m, Evaluate(m, El(m, sel).child), El(m, sel).child, g),
             LAMBDA m1 : SetCgrp(m1, sel, g.s, FALSE))
    ELSE m

\* _gmx_sel_evaluate_subexpr: the first evaluation writes the child's
\* result straight into the subexpression's storage; later ones evaluate
\* the child for the atoms not yet covered and merge.
EvalSubexpr(m, sel, g) ==
    LET e  == El(m, sel)
        ch == e.child
    IN  CASE e.cgrpsz = 0 ->
               Do(Call(SetStore(m, ch, e.v), Evaluate(m, ch), ch, g), LAMBDA m1 :
               SetCgrp(SetStore(m1, ch, El(m, ch).v), sel, g.s, TRUE))
          [] e.cgrpsz # 0 /\ g.s \ e.cgrp # {} ->
               Do(Call(m, Evaluate(m, ch), ch, G(g.s \ e.cgrp)), LAMBDA m1 :
               Do(IF e.vtype = "GROUP_VALUE"
                   THEN GOp(m1, e.v, {El(m1, ch).v}, VG(m1, sel) \cup VG(m1, ch))
                   ELSE m1, LAMBDA m2 :
               PoolRelease(SetCgrp(m2, sel, e.cgrp \cup g.s, TRUE), ch)))
          [] OTHER -> m

\* _gmx_sel_evaluate_subexprref_simple
EvalSubexprRefSimple(m, sel, g) ==
    IF ~g.null THEN Call(m, Evaluate(m, El(m, sel).child), El(m, sel).child, g)
    ELSE m

\* _gmx_sel_evaluate_subexprref
EvalSubexprRef(m, sel, g) ==
    LET ch == El(m, sel).child
        copy(m1) == IF El(m1, sel).vtype \in {"GROUP_VALUE", "POS_VALUE"}
                    THEN GOp(m1, El(m1, sel).v, {El(m1, ch).v},
                             IF g.null THEN VG(m1, ch) ELSE VG(m1, ch) \cap g.s)
                    ELSE m1
    IN  IF g.null THEN copy(m)
        ELSE Do(Call(m, Evaluate(m, ch), ch, g), copy)

\* _gmx_sel_evaluate_method_params
EvalParam(m, child, g) ==
    CASE El(m, child).evaluate = "NULL" \/ "SEL_EVALFRAME" \in El(m, child).flags -> m
      [] "SEL_ATOMVAL" \in El(m, child).flags -> Call(m, Evaluate(m, child), child, g)
      [] OTHER -> Call(AddFlags(m, child, {"SEL_EVALFRAME"}), Evaluate(m, child),
                       child, GNULL)

EvalMethodParams(m, sel, g) ==
    ForEachChild(LAMBDA mm, c : EvalParam(mm, c, g), m, El(m, sel).child)

\* _gmx_sel_evaluate_method: a keyword selects its atoms among those of g.
\* Methods that need a frame are not evaluated by the compiler.
EvalMethod(m, sel, g) ==
    Do(EvalMethodParams(m, sel, g), LAMBDA m1 :
    IF El(m1, sel).method = "keyword" /\ ~g.null
    THEN GOp(m1, El(m1, sel).v, {}, El(m1, sel).meth \cap g.s)
    ELSE Throw(m1, "FrameNeeded"))

\* _gmx_sel_evaluate_not
EvalNot(m, sel, g) ==
    Do(Call(m, Evaluate(m, El(m, sel).child), El(m, sel).child, g), LAMBDA m1 :
    PoolRelease(GOp(m1, El(m1, sel).v, {El(m1, El(m1, sel).child).v},
                    g.s \ VG(m1, El(m1, sel).child)),
                El(m1, sel).child))

\* _gmx_sel_evaluate_and: the loop over the children after the first.
EvalAndLoop(m, sel, child) ==
    IF m.err # "none" \/ child = NULL \/ VG(m, sel) = {} THEN m
    ELSE Do(Call(m, Evaluate(m, child), child, G(VG(m, sel))), LAMBDA m1 :
         EvalAndLoop(PoolRelease(GOp(m1, El(m1, sel).v, {El(m1, child).v},
                                     VG(m1, sel) \cap VG(m1, child)), child),
                     sel, El(m1, child).next))

EvalAnd(m, sel, g) ==
    LET c0    == El(m, sel).child
        first == IF El(m, c0).evaluate = "NULL" THEN El(m, c0).next ELSE c0
    IN  Do(Call(m, Evaluate(m, first), first, g), LAMBDA m1 :
        EvalAndLoop(PoolRelease(GOp(m1, El(m1, sel).v, {El(m1, first).v},
                                    VG(m1, first)), first),
                    sel, El(m1, first).next))

\* _gmx_sel_evaluate_or: tmp holds the atoms of g no child has selected yet.
EvalOrLoop(m, sel, child, tmp) ==
    IF m.err # "none" \/ child = NULL \/ tmp = {} THEN m
    ELSE Do(Call(m, Evaluate(m, child), child, G(tmp)), LAMBDA m1 :
         EvalOrLoop(PoolRelease(GOp(m1, El(m1, sel).v, {El(m1, child).v},
                                    VG(m1, sel) \cup (tmp \cap VG(m1, child))), child),
                    sel, El(m1, child).next, tmp \ VG(m1, child)))

EvalOr(m, sel, g) ==
    LET c0 == El(m, sel).child
        rest(m1) == EvalOrLoop(PoolRelease(GOp(m1, El(m1, sel).v, {El(m1, c0).v},
                                               g.s \cap VG(m1, c0)), c0),
                               sel, El(m1, c0).next, g.s \ VG(m1, c0))
    IN  IF El(m, c0).evaluate = "NULL" THEN rest(m)
        ELSE Do(Call(m, Evaluate(m, c0), c0, g), rest)

Call(m, f, sel, g) ==
    CASE m.err # "none" -> m
      [] f = "nullptr" -> Throw(m, "NullDereference")
      [] f = "analyze_static" -> analyze_static(m, sel, g)
      [] f = "root" -> EvalRoot(m, sel)
      [] f = "static" -> EvalStatic(m, sel, g)
      [] f = "subexpr_simple" -> EvalSubexprSimple(m, sel, g)
      [] f = "subexpr_staticeval" -> EvalSubexprStaticEval(m, sel, g)
      [] f = "subexpr" -> EvalSubexpr(m, sel, g)
      [] f = "subexprref_simple" -> EvalSubexprRefSimple(m, sel, g)
      [] f = "subexprref" -> EvalSubexprRef(m, sel, g)
      [] f = "method" -> EvalMethod(m, sel, g)
      [] f = "not" -> EvalNot(m, sel, g)
      [] f = "and" -> EvalAnd(m, sel, g)
      [] f = "or" -> EvalOr(m, sel, g)
      [] OTHER -> Throw(m, "NullCall")

\* -------------------------------------------------------- static analysis
\* init_method: the output is initialized once; kw_pos sets up its output
\* positions for the group given as its parameter (its outinit).
init_method(m, sel) ==
    LET e == El(m, sel)
        bAtomVal == \E c \in Range(Children(m, sel)) : "SEL_ATOMVAL" \in El(m, c).flags
    IN  IF bAtomVal \/ "SEL_OUTINIT" \notin e.flags
        THEN Bind(AddFlags(m, sel, {"SEL_METHODINIT", "SEL_OUTINIT"}), LAMBDA m1 :
             IF e.method = "kw_pos"
             THEN GOp(m1, e.v, {El(m1, e.child).v}, VG(m1, e.child))
             ELSE alloc_selection_data(m1, sel, TRUE))
        ELSE m

\* Faulty variant of LastStatic: the static part is the first operand.
LastStaticFirstOnly(m, child) == child

\* Find the last static subexpression.
RECURSIVE LastStatic(_, _)
LastStatic(m, child) ==
    IF El(m, child).next # NULL
       /\ "SEL_CDATA_STATIC" \in El(m, El(m, child).next).cdflags
    THEN LastStatic(m, El(m, child).next) ELSE child

\* History of the constant that replaces the static operands c, c->next, ..
RECURSIVE OrigOfChain(_, _, _)
OrigOfChain(m, c, op) ==
    IF c = NULL THEN (IF op = "AND" THEN Atoms ELSE {})
    ELSE IF op = "AND" THEN El(m, c).orig \cap OrigOfChain(m, El(m, c).next, op)
    ELSE El(m, c).orig \cup OrigOfChain(m, El(m, c).next, op)

\* The block of evaluate_boolean_static_part that evaluates several static
\* operands at once and replaces them with one new constant.
StaticPartReplace(m, sel, last, g) ==
    LET next == El(m, last).next
    IN  Do(Call(Set(m, last, "next", NULL), CdEvaluate(m, sel), sel, g), LAMBDA m1 :
        Do(FreeChain(m1, El(m1, sel).child), LAMBDA m2 :
        Do(Alloc(m2, [NewElem("SEL_CONST") EXCEPT
                 !.flags = {"SEL_FLAGSSET", "SEL_SINGLEVAL", "SEL_ALLOCVAL",
                            "SEL_ALLOCDATA"},
                 !.vtype = "GROUP_VALUE", !.refcount = 0,
                 !.orig = OrigOfChain(m1, El(m1, sel).child, El(m1, sel).boolt),
                 !.analysed = TRUE]),
            LAMBDA m3 :
        LET child == Last(m3)
        IN  Do(Reserve(m3, child), LAMBDA m4 :
            Do(GOp(m4, El(m4, child).v, {El(m4, sel).v}, VG(m4, sel)), LAMBDA m5 :
            Do(init_item_minmax_groups(init_item_compilerdata(m5, child), child),
                LAMBDA m6 :
            [m6 EXCEPT !.el[child].cdflags =
                           (@ \ {"SEL_CDATA_STATICEVAL"})
                             \cup (El(m6, sel).cdflags \cap {"SEL_CDATA_STATICEVAL"}),
                       !.el[child].next = next,
                       !.el[sel].child = child]))))))

evaluate_boolean_static_part(m, sel, g) ==
    LET first == El(m, sel).child
        last  == LastStatic(m, first)
    IN  IF "SEL_CDATA_STATIC" \notin El(m, last).cdflags THEN m
        ELSE Do(CASE last # first -> StaticPartReplace(m, sel, last, g)
                   [] last = first /\ El(m, first).evaluate # "NULL" ->
                        Call(m, Evaluate(m, first), first, g)
                   [] OTHER -> m, LAMBDA m1 :
             LET child == El(m1, sel).child
                 e     == El(m1, sel)
             IN  IF e.boolt = "NOT"
                    \/ ("SEL_CDATA_STATICEVAL" \in e.cdflags /\ e.boolt = "OR")
                 THEN [m1 EXCEPT !.el[child].evaluate = "NULL",
                                 !.el[child].cdeval = "NULL"]
                 ELSE SetCgrp([m1 EXCEPT !.el[child].evaluate = "NULL",
                                         !.el[child].cdeval = "static"],
                              child, VG(m1, child), TRUE))

\* The loops of evaluate_boolean_minmax_grps over the operands after the
\* first: <<gmin, gmax>> so far.
\* Faulty variant of AndMinMax: the loop ends when gmin is empty.
RECURSIVE AndMinMaxStopOnGmin(_, _, _)
AndMinMaxStopOnGmin(m, child, mm) ==
    IF child = NULL \/ mm[1] = {} THEN mm
    ELSE AndMinMaxStopOnGmin(m, El(m, child).next,
                             <<mm[1] \cap BufG(m, El(m, child).gmin),
                               mm[2] \cap BufG(m, El(m, child).gmax)>>)

\* Faulty variant of OrMinMax: the loop ends when gmax has the size of g.
RECURSIVE OrMinMaxStopOnGmax(_, _, _, _)
OrMinMaxStopOnGmax(m, child, mm, g) ==
    IF child = NULL \/ Cardinality(mm[2]) >= Cardinality(g) THEN mm
    ELSE OrMinMaxStopOnGmax(m, El(m, child).next,
                            <<mm[1] \cup BufG(m, El(m, child).gmin),
                              mm[2] \cup BufG(m, El(m, child).gmax)>>, g)

RECURSIVE AndMinMax(_, _, _), OrMinMax(_, _, _, _)
AndMinMax(m, child, mm) ==
    IF child = NULL \/ mm[2] = {} THEN mm
    ELSE AndMinMax(m, El(m, child).next,
                   <<mm[1] \cap BufG(m, El(m, child).gmin),
                     mm[2] \cap BufG(m, El(m, child).gmax)>>)

OrMinMax(m, child, mm, g) ==
    IF child = NULL \/ Cardinality(mm[1]) >= Cardinality(g) THEN mm
    ELSE OrMinMax(m, El(m, child).next,
                  <<mm[1] \cup BufG(m, El(m, child).gmin),
                    mm[2] \cup BufG(m, El(m, child).gmax)>>, g)

\* Update the static part (the first child) from the group gnew.
UpdateStaticPart(m, c1, gnew) ==
    Bind(GOp(m, El(m, c1).v, {}, gnew), LAMBDA m1 :
    IF El(m1, c1).cgrpsz > 0 THEN SetCgrp(m1, c1, gnew, El(m1, c1).cgrpown) ELSE m1)

\* History: the bounds and the value of each child of sel.
KidBounds(m, sel) ==
    [i \in DOMAIN Children(m, sel) |->
        <<BufG(m, El(m, Children(m, sel)[i]).gmin),
          BufG(m, El(m, Children(m, sel)[i]).gmax),
          VG(m, Children(m, sel)[i])>>]

evaluate_boolean_minmax_grps(m, sel, g) ==
    LET e  == El(m, sel)
        c1 == e.child
        k1 == <<BufG(m, El(m, c1).gmin), BufG(m, El(m, c1).gmax)>>
        ptrs == {El(m, c1).gmin, El(m, c1).gmax}
        put(mm) == GOp(GOp(Set(m, sel, "kidb", KidBounds(m, sel)),
                           e.gmin, ptrs, mm[1]), e.gmax, ptrs, mm[2])
        static1 == "SEL_CDATA_STATIC" \in El(m, c1).cdflags
    IN  CASE e.boolt = "NOT" -> put(<<g.s \ k1[2], g.s \ k1[1]>>)
          [] e.boolt = "AND" ->
               Bind(AndMinMax(m, El(m, c1).next, k1), LAMBDA mm :
               IF static1 /\ Cardinality(VG(m, c1)) > Cardinality(mm[2])
               THEN UpdateStaticPart(put(mm), c1, mm[2]) ELSE put(mm))
          [] e.boolt = "OR" ->
               Bind(OrMinMax(m, El(m, c1).next, k1, g.s), LAMBDA mm :
               IF static1 /\ Cardinality(VG(m, c1)) < Cardinality(mm[1])
               THEN UpdateStaticPart(put(mm), c1, mm[1]) ELSE put(mm))
          [] OTHER -> Throw(m, "NotImplementedError")

\* Faulty variant of the guard: every evaluated element is made static.
MakeStaticAlways(m, sel) ==
    IF m.err = "none" THEN make_static(m, sel) ELSE m

\* Faulty variant of the guard: no evaluated element is made static.
MakeStaticNever(m, sel) == m

\* if (sel->cdata->flags & SEL_CDATA_STATIC) make_static(sel);
MakeStaticIfStatic(m, sel) ==
    IF m.err = "none" /\ "SEL_CDATA_STATIC" \in El(m, sel).cdflags
    THEN make_static(m, sel) ELSE m

\* Faulty variant of SetGmax: the maximum group is left empty.
SetGmaxEmpty(m, sel, g) == GOp(m, El(m, sel).gmax, {}, {})

\* gmx_ana_index_copy(sel->cdata->gmax, g, true)
SetGmax(m, sel, g) == GOp(m, El(m, sel).gmax, {}, g.s)

\* Replace the result of the evaluation (the tail of analyze_static).
ReplaceResult(m, sel) ==
    LET e == El(m, sel)
    IN  CASE m.err # "none" -> m
          [] e.vtype = "GROUP_VALUE" /\ "SEL_DYNAMIC" \in e.flags
               /\ e.type # "SEL_SUBEXPR" /\ ~(e.type = "SEL_BOOLEAN" /\ e.boolt = "NOT") ->
                 GOp(m, e.v, {e.gmin, e.gmax},
                     IF "SEL_CDATA_EVALMAX" \in e.cdflags
                     THEN BufG(m, e.gmax) ELSE BufG(m, e.gmin))
          [] OTHER -> m

\* case SEL_CONST of analyze_static
AnalyzeConst(m, sel, g) ==
    ReplaceResult(IF El(m, sel).vtype = "GROUP_VALUE" /\ El(m, sel).cdeval # "NULL"
                  THEN Call(m, CdEvaluate(m, sel), sel, g) ELSE m, sel)

\* case SEL_EXPRESSION / SEL_MODIFIER of analyze_static
AnalyzeMethod(m, sel, g, bDoMinMax) ==
    Do(EvalMethodParams(m, sel, g), LAMBDA m1 :
    IF g.null THEN Throw(m1, "NullDereference")
    ELSE Do(init_method(m1, sel), LAMBDA m2 :
         ReplaceResult(
             CASE ~IsDyn(m2, sel) ->
                    MakeStaticIfStatic(Call(m2, CdEvaluate(m2, sel), sel, g), sel)
               [] IsDyn(m2, sel) /\ bDoMinMax -> SetGmax(m2, sel, g)
               [] OTHER -> m2, sel)))

\* case SEL_BOOLEAN of analyze_static
AnalyzeBoolean(m, sel, g) ==
    IF ~IsDyn(m, sel)
    THEN Do(Call(m, CdEvaluate(m, sel), sel, g), LAMBDA m1 :
         ReplaceResult(MakeStaticIfStatic(m1, sel), sel))
    ELSE Do(evaluate_boolean_static_part(m, sel, g), LAMBDA m1 :
         Do(Call(m1, CdEvaluate(m1, sel), sel,
                  IF El(m1, sel).boolt = "AND"
                     /\ El(m1, El(m1, sel).child).type = "SEL_CONST"
                  THEN G(VG(m1, El(m1, sel).child)) ELSE g), LAMBDA m2 :
         ReplaceResult(evaluate_boolean_minmax_grps(m2, sel, g), sel)))

\* case SEL_ROOT of analyze_static
AnalyzeRoot(m, sel, g) ==
    Do(Call(m, CdEvaluate(m, sel), sel, g), LAMBDA m1 : ReplaceResult(m1, sel))

\* case SEL_SUBEXPR of analyze_static
AnalyzeSubexpr(m, sel, g, bDoMinMax) ==
    LET e == El(m, sel)
        miss == g.s \ e.cgrp
        first == e.cgrpsz = 0
    IN  CASE e.cdflags \cap {"SEL_CDATA_SIMPLESUBEXPR", "SEL_CDATA_FULLEVAL"} # {} ->
               Do(Call(m, CdEvaluate(m, sel), sel, g), LAMBDA m1 :
               SetStore(m1, sel, El(m1, El(m1, sel).child).v))
          [] e.cdflags \cap {"SEL_CDATA_SIMPLESUBEXPR", "SEL_CDATA_FULLEVAL"} = {}
               /\ g.null -> Throw(m, "NullDereference")
          [] OTHER ->
               Do(Call(IF ~first /\ miss # {}
                        THEN alloc_selection_data(m, sel, FALSE) ELSE m,
                        CdEvaluate(m, sel), sel, g), LAMBDA m1 :
               LET ch == El(m1, sel).child
                   cmin == BufG(m1, El(m1, ch).gmin)
                   cmax == BufG(m1, El(m1, ch).gmax)
                   ptrs == {El(m1, ch).gmin, El(m1, ch).gmax}
               IN  CASE ~bDoMinMax -> m1
                     [] bDoMinMax /\ first ->
                          GOp(GOp(m1, e.gmin, ptrs, cmin), e.gmax, ptrs, cmax)
                     [] bDoMinMax /\ ~first /\ miss # {} ->
                          GOp(GOp(m1, e.gmin, ptrs, BufG(m1, e.gmin) \cup cmin),
                              e.gmax, ptrs, BufG(m1, e.gmax) \cup cmax)
                     [] OTHER -> m1)

\* case SEL_SUBEXPRREF of analyze_static
AnalyzeSubexprRef(m, sel, g, bDoMinMax) ==
    LET e == El(m, sel)
        simple == "SEL_CDATA_SIMPLESUBEXPR" \in e.cdflags
        m0 == CASE ~(g.null /\ ~simple) -> m
                [] g.null /\ ~simple
                     /\ (~El(m, e.child).cdata \/ El(m, e.child).gmax = NULL) ->
                       Throw(m, "NullDereference")
                [] OTHER -> alloc_selection_data(m, sel, TRUE)
    IN  Do(Call(m0, CdEvaluate(m, sel), sel, g), LAMBDA m1 :
        IF simple /\ El(m1, e.child).child = NULL THEN Throw(m1, "NullDereference")
        ELSE Do(IF simple /\ "SEL_ALLOCVAL" \in El(m1, El(m1, e.child).child).flags
                 THEN SetStore(m1, sel, El(m1, El(m1, e.child).child).v)
                 ELSE m1, LAMBDA m2 :
             LET ch == El(m2, sel).child
                 cmin == BufG(m2, El(m2, ch).gmin)
                 cmax == BufG(m2, El(m2, ch).gmax)
                 ptrs == {El(m2, ch).gmin, El(m2, ch).gmax}
             IN  ReplaceResult(
                     CASE ~IsDyn(m2, sel) -> MakeStaticIfStatic(m2, sel)
                       [] IsDyn(m2, sel) /\ ~bDoMinMax -> m2
                       [] IsDyn(m2, sel) /\ bDoMinMax /\ (simple \/ g.null) ->
                            GOp(GOp(m2, e.gmin, ptrs, cmin), e.gmax, ptrs, cmax)
                       [] OTHER ->
                            GOp(GOp(m2, e.gmin, ptrs, cmin \cap g.s),
                                e.gmax, ptrs, cmax \cap g.s), sel)))

\* History: the group the bounds of sel are computed for by this call; a
\* common subexpression accumulates its bounds over the groups of its calls.
AnalysedFor(m, sel, g) ==
    IF "SEL_CDATA_DOMINMAX" \notin El(m, sel).cdflags THEN El(m, sel).ag
    ELSE IF El(m, sel).type = "SEL_SUBEXPR" /\ El(m, sel).cgrpsz # 0 /\ ~g.null
    THEN [null |-> FALSE, s |-> El(m, sel).cgrp \cup g.s]
    ELSE g

\* The head of analyze_static: the storage of the value is allocated and the
\* minimum and maximum groups are cleared.
AnalyzeEnter(m, sel, g) ==
    LET e  == El(m, sel)
        m0 == IF e.type # "SEL_ROOT" /\ ~g.null
              THEN alloc_selection_data(m, sel, FALSE) ELSE m
        m1 == [m0 EXCEPT !.el[sel].ag = AnalysedFor(m, sel, g),
                         !.el[sel].analysed = TRUE]
    IN  IF m0.err = "none" /\ e.type # "SEL_SUBEXPR" /\ "SEL_CDATA_DOMINMAX" \in e.cdflags
        THEN Deinit(Deinit(m1, e.gmin), e.gmax)
        ELSE m1

\* The switch on sel->type; each case ends with the replacement of the
\* result that follows the switch.  The evaluation of arithmetic expressions
\* is outside the model: the collections compiled here hold none, and the
\* case raises the error of an evaluation the model cannot carry out.
analyze_static(m, sel, g) ==
    LET type == El(m, sel).type
        bDoMinMax == "SEL_CDATA_DOMINMAX" \in El(m, sel).cdflags
    IN  CASE ~El(m, sel).cdata -> Throw(m, "NullDereference")
          [] type = "SEL_CONST" -> AnalyzeConst(AnalyzeEnter(m, sel, g), sel, g)
          [] type \in {"SEL_EXPRESSION", "SEL_MODIFIER"} ->
               AnalyzeMethod(AnalyzeEnter(m, sel, g), sel, g, bDoMinMax)
          [] type = "SEL_BOOLEAN" -> AnalyzeBoolean(AnalyzeEnter(m, sel, g), sel, g)
          [] type = "SEL_ARITHMETIC" -> Throw(m, "FrameNeeded")
          [] type = "SEL_ROOT" -> AnalyzeRoot(AnalyzeEnter(m, sel, g), sel, g)
          [] type = "SEL_SUBEXPR" ->
               AnalyzeSubexpr(AnalyzeEnter(m, sel, g), sel, g, bDoMinMax)
          [] type = "SEL_SUBEXPRREF" ->
               AnalyzeSubexprRef(AnalyzeEnter(m, sel, g), sel, g, bDoMinMax)
          [] OTHER -> Throw(m, "APIError")

\* ------------------------------------------------------- finalization
\* init_root_item
\* What init_root_item reads of the child of root r: its type, its
\* compiler flags and its maximum group.
ChildAtFinal(m, r) ==
    LET x == El(m, El(m, r).child)
    IN  [type  |-> x.type,
         flags |-> x.cdflags,
         gmax  |-> IF x.cdata /\ x.gmax # NULL THEN BufG(m, x.gmax) ELSE {}]

\* Faulty variant of EvaluatedByReference: it leaves every subexpression
\* with a single reference to that reference.
EvaluatedByReferenceAnySimple(x) ==
    /\ x.type = "SEL_SUBEXPR"
    /\ \/ "SEL_CDATA_STATICEVAL" \notin x.cdflags
       \/ "SEL_CDATA_SIMPLESUBEXPR" \in x.cdflags

\* The first condition of init_root_item on the child x of the root: a
\* subexpression with a non-static evaluation group, or with a single
\* reference and not evaluated for all atoms, is not evaluated by the root.
EvaluatedByReference(x) ==
    /\ x.type = "SEL_SUBEXPR"
    /\ \/ "SEL_CDATA_STATICEVAL" \notin x.cdflags
       \/ ("SEL_CDATA_SIMPLESUBEXPR" \in x.cdflags
             /\ "SEL_CDATA_FULLEVAL" \notin x.cdflags)

init_root_item(m0, r) ==
    LET m    == Set(m0, r, "fin", <<ChildAtFinal(m0, r)>>)
        e    == El(m, r)
        expr == e.child
        x    == El(m, expr)
        noeval == EvaluatedByReference(x)
        m1   == IF noeval
                THEN [m EXCEPT !.el[r].evaluate = "NULL",
                               !.el[r].cdeval = IF e.cdata THEN "NULL" ELSE @]
                ELSE m
        param == El(m1, El(m1, expr).child)
    IN  IF El(m1, r).evaluate = "NULL"
        THEN [m1 EXCEPT !.el[r].cgrp = {}, !.el[r].cgrpsz = 0]
        ELSE Bind(IF "SEL_VARNUMVAL" \in x.flags
                     \/ ("SEL_SINGLEVAL" \in x.flags /\ x.vtype # "GROUP_VALUE")
                  THEN [m1 EXCEPT !.el[r].cgrp = {}, !.el[r].cgrpsz = -1,
                                  !.el[r].cgrpown = FALSE]
                  ELSE IF ~x.cdata \/ x.gmax = NULL THEN Throw(m1, "NullDereference")
                  ELSE IF Cardinality(BufG(m1, x.gmax)) = NAtoms
                  THEN SetCgrp(m1, r, Atoms, FALSE)
                  ELSE SetCgrp(m1, r, BufG(m1, x.gmax), TRUE), LAMBDA m2 :
             IF m2.err = "none" /\ x.type # "SEL_SUBEXPR" /\ x.vtype = "POS_VALUE"
                /\ x.v # NULL /\ "SEL_DYNAMIC" \in param.flags
             THEN Bind(Reserve(AddFlags(SetVType(m2, r, "GROUP_VALUE"), r,
                                        {"SEL_ALLOCVAL", "SEL_ALLOCDATA"}), r), LAMBDA m3 :
                  GOp(m3, El(m3, r).v, {x.v}, VG(m3, expr)))
             ELSE m2)

\* Faulty variant of MoveOwnership: the body keeps its flags.
CopyOwnership(m, sel, cc) ==
    AddFlags(m, sel, El(m, cc).flags \cap {"SEL_ALLOCVAL", "SEL_ALLOCDATA"})

\* The reference sel takes the ownership flags of the body cc of its
\* subexpression.
MoveOwnership(m, sel, cc) ==
    DelFlags(AddFlags(m, sel, El(m, cc).flags \cap {"SEL_ALLOCVAL", "SEL_ALLOCDATA"}),
             cc, {"SEL_ALLOCVAL", "SEL_ALLOCDATA"})

RECURSIVE postprocess_item_subexpressions(_, _)
postprocess_item_subexpressions(m, sel) ==
    Bind(IF El(m, sel).type # "SEL_SUBEXPRREF"
         THEN ForEachChild(postprocess_item_subexpressions, m, El(m, sel).child)
         ELSE m, LAMBDA m1 :
    LET e   == El(m1, sel)
        own == {"SEL_ALLOCVAL", "SEL_ALLOCDATA"}
        ch  == e.child
        \* statically evaluated subexpressions, group not known in advance
        m2  == IF e.type = "SEL_SUBEXPR" /\ e.refcount > 2
                  /\ "SEL_CDATA_STATICEVAL" \in e.cdflags
                  /\ "SEL_CDATA_FULLEVAL" \notin e.cdflags
               THEN LET a == [m1 EXCEPT !.el[sel].cgrp = {}, !.el[sel].cgrpsz = 0,
                                        !.el[sel].cgrpown = FALSE,
                                        !.el[sel].evaluate = "subexpr_staticeval",
                                        !.el[sel].cdeval =
                                            IF e.cdata THEN "subexpr_staticeval" ELSE @]
                        b == Set(FreeValues(a, ch), ch, "mempool", FALSE)
                    IN  DelFlags(SetStore(b, ch, e.v), ch, own)
               ELSE m1
        \* subexpressions used only once
        cc  == IF ch = NULL THEN NULL ELSE El(m2, ch).child
        m3  == IF e.type = "SEL_SUBEXPRREF" /\ "SEL_CDATA_SIMPLESUBEXPR" \in e.cdflags
               THEN IF cc = NULL THEN Throw(m2, "NullDereference")
                    ELSE IF "SEL_ALLOCVAL" \in El(m2, cc).flags
                    THEN MoveOwnership(m2, sel, cc)
                    ELSE m2
               ELSE m2
        \* subexpressions evaluated at once for all atoms
    IN  IF m1.err # "none" THEN m1
        ELSE IF e.type = "SEL_SUBEXPR" /\ "SEL_CDATA_SIMPLESUBEXPR" \notin e.cdflags
                /\ "SEL_CDATA_FULLEVAL" \in e.cdflags
        THEN DelFlags(AddFlags(m3, sel, {"SEL_ALLOCVAL"}
                                   \cup (El(m3, ch).flags \cap {"SEL_ALLOCDATA"})),
                      ch, own)
        ELSE m3)

\* Faulty variant of free_item_compilerdata: it leaves the children alone.
FreeRootCompilerDataOnly(m, sel) == FreeCompilerData(m, sel)

RECURSIVE free_item_compilerdata(_, _)
free_item_compilerdata(m, sel) ==
    Bind(FreeCompilerData(m, sel), LAMBDA m1 :
    IF El(m1, sel).type # "SEL_SUBEXPRREF"
    THEN ForEachChild(free_item_compilerdata, m1, El(m1, sel).child)
    ELSE m1)

\* ------------------------------------------- SelectionCompiler::compile
\* f(m) unless an exception is already in flight.
Then(m, f(_)) == IF m.thrown THEN m ELSE f(m)

\* The body of compile's first loop.
InitItemBody(m, it) ==
    Then(Then(Then(Then(Then(Then(
        optimize_boolean_expressions(m, it),
        LAMBDA a : reorder_boolean_static_children(a, it)),
        LAMBDA a : optimize_arithmetic_expressions(a, it)),
        LAMBDA a : init_item_evalfunc(a, it)),
        LAMBDA a : setup_memory_pooling(a, it)),
        LAMBDA a : init_item_compilerdata(a, it)),
        LAMBDA a : init_item_staticeval(a, it))

\* The body of the first analysis loop.
Pass1Body(m, it) ==
    IF ~El(m, El(m, it).child).cdata THEN Throw(m, "NullDereference")
    ELSE Then(Then(
        IF "SEL_CDATA_COMMONSUBEXPR" \in El(m, El(m, it).child).cdflags
        THEN mark_subexpr_dynamic(m, El(m, it).child, TRUE) ELSE m,
        LAMBDA a : set_evaluation_function(a, it, "analyze_static")),
        LAMBDA a : Call(a, Evaluate(a, it), it, GNULL))

\* Faulty variant of ResetEvalGroup: the group of the first pass is kept.
KeepEvalGroup(m, ch) == m

\* item->child->u.cgrp.isize = 0
ResetEvalGroup(m, ch) == [m EXCEPT !.el[ch].cgrpsz = 0]

\* The body of the second analysis loop.
Pass2Body(m, it) ==
    LET ch == El(m, it).child
        bMinMax == "SEL_CDATA_DOMINMAX" \in El(m, ch).cdflags
    IN  IF ~El(m, ch).cdata THEN Throw(m, "NullDereference")
        ELSE IF "SEL_CDATA_COMMONSUBEXPR" \in El(m, ch).cdflags
        THEN Then(Then(Then(Then(
                 mark_subexpr_dynamic(m, ch, FALSE),
                 LAMBDA a : set_evaluation_function(
                                ResetEvalGroup(a, ch), it, "analyze_static")),
                 LAMBDA a : DelCd(a, ch, {"SEL_CDATA_DOMINMAX"})),
                 LAMBDA a : IF El(a, ch).gmax = NULL THEN Throw(a, "NullDereference")
                            ELSE analyze_static(
                                     Set(a, it, "pass2",
                                         Append(El(a, it).pass2, BufG(a, El(a, ch).gmax))),
                                     ch, G(BufG(a, El(a, ch).gmax)))),
                 LAMBDA a : IF bMinMax THEN AddCd(a, ch, {"SEL_CDATA_DOMINMAX"}) ELSE a)
        ELSE m

\* The body of the last loop.  Position calculations (init_item_comg) keep
\* their data outside the element tree.
FinalBody(m, it) ==
    Then(Then(
        init_root_item(m, it),
        LAMBDA a : postprocess_item_subexpressions(a, it)),
        LAMBDA a : free_item_compilerdata(a, it))

\* ------------------------------------------------- inputs of the compiler
sA == Term("S", {1, 2}, 0, <<>>)
sB == Term("S", {2, 3}, 0, <<>>)
gC == Term("G", {1, 3}, 0, <<>>)
sNone == Term("S", {}, 0, <<>>)
sAll == Term("S", Atoms, 0, <<>>)
Leaves == {sA, sB, tD}
Ops == {"AND", "OR"}
\* Expressions over the leaves, two operators deep.
Exprs1 == Leaves \cup {gC} \cup {Not(l) : l \in Leaves}
            \cup {Bin(op, a, b) : op \in Ops, a \in Leaves, b \in Leaves}
Exprs2 == Exprs1
            \cup {Bin(op, l, t) : op \in Ops, l \in Leaves,
                                  t \in {Not(Bin(o2, a, tD)) : o2 \in Ops, a \in {sA, sB}}
                                        \cup {Bin(o2, a, b) : o2 \in Ops, a \in {sB, tD},
                                                              b \in {sB, tD}}}
            \cup {Term("AND", {}, 0, <<sA, sB, tD>>), Term("OR", {}, 0, <<tD, sA, sB>>),
                  Bin("XOR", sA, tD)}
\* Bodies of variables.
VarBodies == {sA, tD, Not(sB), Bin("AND", sA, tD), Bin("OR", sB, tD), Bin("AND", sA, sB)}
\* Expressions that use variable n.
Uses(n) == {VarRef(n), Not(VarRef(n))}
             \cup {Bin(op, VarRef(n), l) : op \in Ops, l \in Leaves}
             \cup {Bin(op, l, VarRef(n)) : op \in Ops, l \in {sB, tD}}
             \cup {Bin(op, VarRef(n), VarRef(n)) : op \in Ops}
             \cup {Bin("AND", sB, Not(VarRef(n)))}
Within(t) == Term("W", {}, 0, <<t>>)
\* A comparison of a coordinate, evaluated for each atom.
Cmp == Term("C", {}, 0, <<Term("RD", {}, 0, <<>>)>>)
\* A method whose two position parameters are the positions of t.
Between(t) == Term("WW", {}, 0, <<t>>)
Var(t) == <<"var", t>>
Sel(t) == <<"sel", t>>
Inputs ==
    {<<Sel(t)>> : t \in Exprs2}
      \cup {<<Sel(t), Sel(u)>> : t \in {sA, tD}, u \in {Not(tD), Bin("AND", sB, tD)}}
      \cup {<<Var(v), Sel(t)>> : v \in VarBodies, t \in Uses(1) \cup {sA, tD}}
      \cup {<<Var(v), Sel(t), Sel(u)>> :
               v \in VarBodies, t \in {VarRef(1), Bin("AND", VarRef(1), tD)},
               u \in {VarRef(1), Bin("AND", sB, VarRef(1)), Bin("OR", VarRef(1), tD), sA}}
      \cup {<<Var(v), Var(w), Sel(t)>> :
               v \in {sA, tD, Bin("AND", sA, tD)},
               w \in {Bin(op, VarRef(1), l) : op \in Ops, l \in {sB, tD}},
               t \in {Bin("AND", VarRef(2), tD), Bin("OR", VarRef(2), VarRef(1)),
                      Bin("AND", VarRef(2), VarRef(2)), VarRef(1), tD}}
      \cup {<<Var(v)>> : v \in {sA, tD}}
      \cup {<<Sel(Within(t))>> : t \in {sA, tD, Bin("AND", sA, tD), Within(sA)}}
      \cup {<<Sel(Bin("AND", sB, Within(sA)))>>, <<Sel(Within(sA)), Sel(Within(tD))>>,
            <<Sel(Bin("AND", sA, sB)), Sel(Bin("OR", sA, Not(Bin("AND", sA, tD))))>>}
      \cup {<<Sel(Bin("XOR", sA, sB))>>, <<Sel(sA), Sel(Bin("XOR", sA, tD))>>,
            <<Sel(Bin("AND", tD, Bin("XOR", sA, tD)))>>}
      \cup {<<Var(Bin("XOR", sA, tD)), Sel(t)>> : t \in {sA, VarRef(1)}}
      \cup {<<Sel(Term("AND", {}, 0, <<s, tD, Term("OR", {}, 0, <<sA, sB, tD>>)>>))>> :
               s \in {sNone, sA}}
      \cup {<<Sel(Term("OR", {}, 0, <<s, tD, Term("AND", {}, 0, <<sA, sB, tD>>)>>))>> :
               s \in {sAll, sA}}
      \cup {<<Var(Term(op, {}, 0, <<sA, tD, sB, Not(tD)>>)), Sel(Bin("AND", VarRef(1), tD)),
              Sel(Bin("OR", VarRef(1), tD))>> : op \in Ops}
      \cup {<<Var(v), Var(Bin("AND", VarRef(1), sB)),
              Sel(Bin("AND", VarRef(2), VarRef(2))), Sel(t)>> :
               v \in {sA, tD}, t \in {VarRef(1), Within(VarRef(1))}}
      \cup {<<Var(v), Sel(t)>> : v \in {sA, tD, Within(sA)},
                                 t \in {Within(VarRef(1)), Bin("OR", Within(sB), VarRef(1))}}
      \cup {<<Var(v), Sel(Bin("AND", VarRef(1), tD)), Sel(Bin("OR", VarRef(1), tD))>> :
               v \in {Within(sA), Bin("AND", Within(sA), sB)}}
      \cup {<<Var(v), Sel(Bin(op, tD, VarRef(1))), Sel(Within(VarRef(1)))>> :
               v \in {tD, Bin("AND", sA, tD)}, op \in Ops}
      \cup {<<Var(v), Sel(Within(VarRef(1))), Sel(Bin(op, tD, VarRef(1)))>> :
               v \in {tD, Bin("AND", sA, tD)}, op \in Ops}
      \cup {<<Sel(t)>> : t \in {Between(sA), Between(tD), Bin("AND", sA, Between(sA)),
                                 Bin("OR", tD, Between(Bin("AND", sA, tD)))}}
      \cup {<<Sel(t)>> : t \in {Cmp, Not(Cmp), Within(Cmp)}
                                \cup {Bin(op, l, Cmp) : op \in Ops, l \in {sA, tD}}}

\* ---------------------------------------------------------- the compiler
Init ==
    \E its \in Inputs : \E c \in {ParseSelections(its)} :
        /\ mem = c.m
        /\ root = c.root
        /\ pc = "prune0"
        /\ item = NULL
        /\ pre = EmptyMem
        /\ gmx_double = FALSE

\* The position after a loop body ran on item: the next item, or the
\* statement after the loop.
Advance(m1, after) ==
    IF m1.err # "none" THEN pc' = "failed" /\ item' = NULL
    ELSE IF El(m1, item).next # NULL THEN pc' = pc /\ item' = El(m1, item).next
    ELSE pc' = after /\ item' = root

\* sc->root = remove_unused_subexpressions(sc->root), at its three places.
RemoveUnused ==
    /\ pc \in {"prune0", "prune1", "prune2"}
    /\ \E r \in {remove_unused_subexpressions(mem, root)} :
           /\ mem' = r.m
           /\ root' = r.root
           /\ item' = r.root
           /\ pc' = IF r.m.err # "none" THEN "failed"
                    ELSE CASE pc = "prune0" -> "extract"
                           [] pc = "prune1" -> "pass2"
                           [] OTHER -> "final"
    /\ pre' = mem
    /\ UNCHANGED gmx_double

\* sc->root = extract_subexpressions(sc->root)
ExtractSubexpressions ==
    /\ pc = "extract"
    /\ \E r \in {extract_subexpressions(mem, root)} :
           /\ mem' = r.m
           /\ root' = r.root
           /\ item' = r.root
           /\ pc' = "init"
    /\ UNCHANGED <<pre, gmx_double>>

\* One iteration of the loop that normalizes an item and gives it its
\* evaluation functions and compiler data.
InitItem ==
    /\ pc = "init"
    /\ \E m1 \in {InitItemBody(mem, item)} : mem' = m1 /\ Advance(m1, "flags")
    /\ UNCHANGED <<root, pre, gmx_double>>

\* One iteration of the loop over init_item_subexpr_flags and
\* init_item_evaloutput.
InitFlagsOutput ==
    /\ pc = "flags"
    /\ \E m1 \in {Then(init_item_subexpr_flags(mem, item),
                       LAMBDA a : init_item_evaloutput(a, item))} :
           mem' = m1 /\ Advance(m1, "minmax")
    /\ UNCHANGED <<root, pre, gmx_double>>

\* One iteration of the loop over init_item_minmax_groups; the evaluation
\* groups of the roots are initialized when the loop is left.
InitMinMax ==
    /\ pc = "minmax"
    /\ \E m1 \in {init_item_minmax_groups(mem, item)} :
           /\ mem' = IF El(m1, item).next = NULL THEN initialize_evalgrps(m1, root)
                     ELSE m1
           /\ Advance(m1, "pass1")
    /\ UNCHANGED <<root, pre, gmx_double>>

\* One iteration of the first analysis loop.
AnalyzePass1 ==
    /\ pc = "pass1"
    /\ \E m1 \in {Pass1Body(mem, item)} :
           /\ mem' = m1
           /\ IF m1.err = "none" /\ El(m1, item).next = NULL
              THEN pc' = "prune1" /\ item' = NULL
              ELSE Advance(m1, "prune1")
    /\ UNCHANGED <<root, pre, gmx_double>>

\* One iteration of the second analysis loop.
AnalyzePass2 ==
    /\ pc = "pass2"
    /\ \E m1 \in {Pass2Body(mem, item)} :
           /\ mem' = m1
           /\ IF m1.err = "none" /\ El(m1, item).next = NULL
              THEN pc' = "prune2" /\ item' = NULL
              ELSE Advance(m1, "prune2")
    /\ UNCHANGED <<root, pre, gmx_double>>

\* One iteration of the last loop; compile returns when the loop is left.
FinalizeItem ==
    /\ pc = "final"
    /\ \E m1 \in {FinalBody(mem, item)} :
           /\ mem' = m1
           /\ IF m1.err = "none" /\ El(m1, item).next = NULL
              THEN pc' = "done" /\ item' = NULL
              ELSE Advance(m1, "done")
    /\ UNCHANGED <<root, pre, gmx_double>>

Next ==
    \/ RemoveUnused
    \/ ExtractSubexpressions
    \/ InitItem
    \/ InitFlagsOutput
    \/ InitMinMax
    \/ AnalyzePass1
    \/ AnalyzePass2
    \/ FinalizeItem

Spec == Init /\ [][Next]_vars

\* ---------------------------------------- properties of the compiled forest
\* The nodes reached from p by parent-child edges and the sibling links of
\* the chains; a reference leads on to the subexpression it refers to.
RECURSIVE Nodes(_, _)
Nodes(m, p) ==
    IF p = NULL THEN {}
    ELSE {p} \cup Nodes(m, El(m, p).child) \cup Nodes(m, El(m, p).next)

Forest == Nodes(mem, root)

\* C1: once compile has returned normally, no node of the compiled forest
\* has analyze_static as its evaluation function, none holds compiler data,
\* and the evaluation function of every node is the real function that was
\* saved in its compiler data when that data was freed.
C1_AnnotationsDiscarded ==
    pc = "done" =>
        \A p \in Forest :
            /\ El(mem, p).evaluate # "analyze_static"
            /\ ~El(mem, p).cdata
            /\ El(mem, p).evaluate = El(mem, p).saved

\* A compiled forest of several roots in which a Boolean and a method kept
\* their real evaluation functions.
C1_Witness ==
    /\ pc = "done"
    /\ Len(Roots(mem)) >= 2
    /\ \E p, q \in Forest : El(mem, p).saved = "and" /\ El(mem, q).saved = "method"

\* C4: when compile returns, the chain holds no root whose child is a
\* subexpression with reference count 1: unreferenced variables, and
\* subexpressions whose references were all folded away, are gone.
C4_NoUnusedRoot ==
    pc = "done" => \A r \in Range(Roots(mem)) : ~IsUnusedRoot(mem, r)

\* compile has returned, and its last pruning (pre is the memory it found)
\* removed a root that had lost its references in the second pass.
C4_Witness ==
    /\ pc = "done"
    /\ \E r \in LiveEl(pre) :
           /\ pre.el[r].type = "SEL_ROOT"
           /\ IsUnusedRoot(pre, r)
           /\ ~mem.el[r].live

\* The nodes of the item below p: p, its siblings after it and their
\* descendants, a reference being a leaf.
RECURSIVE ItemNodes(_, _)
ItemNodes(m, p) ==
    IF p = NULL THEN {}
    ELSE {p} \cup (IF El(m, p).type = "SEL_SUBEXPRREF" THEN {}
                   ELSE ItemNodes(m, El(m, p).child))
             \cup ItemNodes(m, El(m, p).next)

\* The references in the tree of the root r.
RefsOf(m, r) ==
    {p \in ItemNodes(m, El(m, r).child) :
        El(m, p).type = "SEL_SUBEXPRREF" /\ El(m, p).child # NULL}

\* The root r holds a subexpression that extract_subexpressions created
\* (named "SubExpr i"), not a variable.
IsExtracted(m, r) ==
    LET c == El(m, El(m, r).child)
    IN  c.type = "SEL_SUBEXPR" /\ c.name # NULL /\ c.name < VarName0

AfterExtraction ==
    pc \in {"init", "flags", "minmax", "pass1", "prune1", "pass2", "prune2", "final",
            "done"}

\* C5: from the end of extract_subexpressions until compile returns, the
\* root that owns the subexpression of a reference stands earlier in the
\* chain than the root whose tree holds the reference (so a nested
\* subexpression precedes the one that contains it, also after pruning);
\* and when the extraction has just ended, every extracted root is followed,
\* after extracted roots only, by the first top-level item, and is used in
\* that stretch of the chain.
C5_SubexpressionsPrecedeUses ==
    AfterExtraction =>
        LET rs == Roots(mem)
        IN  /\ \A i \in DOMAIN rs : \A p \in RefsOf(mem, rs[i]) :
                   \E j \in 1 .. (i - 1) : El(mem, rs[j]).child = El(mem, p).child
            /\ (pc = "init" /\ item = root) =>
                   \A j \in DOMAIN rs : IsExtracted(mem, rs[j]) =>
                       \E k \in (j + 1) .. Len(rs) :
                           /\ ~IsExtracted(mem, rs[k])
                           /\ \A l \in (j + 1) .. (k - 1) : IsExtracted(mem, rs[l])
                           /\ \E l \in (j + 1) .. k : \E p \in RefsOf(mem, rs[l]) :
                                  El(mem, p).child = El(mem, rs[j]).child

\* compile has returned with an extracted subexpression that uses another
\* extracted subexpression.
C5_Witness ==
    /\ pc = "done"
    /\ \E i, j \in DOMAIN Roots(mem) :
           /\ j < i
           /\ IsExtracted(mem, Roots(mem)[i]) /\ IsExtracted(mem, Roots(mem)[j])
           /\ \E p \in RefsOf(mem, Roots(mem)[i]) :
                  El(mem, p).child = El(mem, Roots(mem)[j]).child

\* The subtree of p: p and everything below it.
Subtree(m, p) == {p} \cup Nodes(m, El(m, p).child)

\* No node of the subtree of p is frame-dependent.
NoDynamic(m, p) == \A q \in Subtree(m, p) : "SEL_DYNAMIC" \notin El(m, q).flags

\* The static subtrees the compiled forest still holds, the Root and Subexpr
\* wrappers aside.
StaticNodes ==
    {p \in Forest : El(mem, p).type \notin {"SEL_ROOT", "SEL_SUBEXPR"} /\ NoDynamic(mem, p)}

\* p is a constant without children.
IsConst(m, p) == El(m, p).type = "SEL_CONST" /\ El(m, p).child = NULL

\* The value of the group constant p: the group its value points to.
ConstValue(m, p) == IF El(m, p).v = NULL THEN {} ELSE m.buf[El(m, p).v].g

IsBooleanOperand(p) ==
    \E q \in Forest : El(mem, q).type = "SEL_BOOLEAN" /\ p \in Range(Children(mem, q))

\* p is an operand of an And of the forest.
IsAndOperand(p) ==
    \E q \in Forest : IsBool(mem, q, "AND") /\ p \in Range(Children(mem, q))

DynamicAnds ==
    {p \in Forest : IsBool(mem, p, "AND") /\ IsDyn(mem, p) /\ ~IsDyn(mem, El(mem, p).child)}

MaxKids == 3

BoundPairs == {pr \in (SUBSET Atoms) \X (SUBSET Atoms) : pr[1] \subseteq pr[2]}
TailPairs == {<<{}, Atoms>>, <<Atoms, Atoms>>}
KidLists ==
    {<<a>> : a \in BoundPairs}
      \cup {<<pr[1], pr[2]>> \o t :
               pr \in BoundPairs \X BoundPairs,
               t \in UNION {[1..n -> TailPairs] : n \in 0..(MaxKids - 2)}}

\* A frame-dependent child with its own gmin and gmax, as
\* init_item_minmax_groups allocates them.
DynamicKid(m, pr) ==
    Bind(AllocBuf(AllocBuf(AllocBuf(m, NewBuf(pr[1], 0)), NewBuf(pr[2], 0)),
                  NewBuf(pr[2], 0)), LAMBDA m1 :
    Alloc(m1, [NewElem("SEL_EXPRESSION") EXCEPT
                  !.vtype = "GROUP_VALUE", !.method = "dynamic",
                  !.flags = @ \cup {"SEL_ALLOCDATA", "SEL_SINGLEVAL", "SEL_DYNAMIC"},
                  !.evaluate = "analyze_static", !.cdata = TRUE, !.cdeval = "method",
                  !.cdflags = {"SEL_CDATA_MINMAXALLOC", "SEL_CDATA_DOMINMAX"},
                  !.gmin = LastBuf(m1) - 2, !.gmax = LastBuf(m1) - 1,
                  !.v = LastBuf(m1)]))

\* The static part: a constant whose gmin and gmax are its value.
StaticKid(m, s) ==
    Bind(AllocBuf(m, NewBuf(s, 0)), LAMBDA m1 :
    Alloc(m1, [NewElem("SEL_CONST") EXCEPT
                  !.vtype = "GROUP_VALUE",
                  !.flags = @ \cup {"SEL_ALLOCDATA", "SEL_SINGLEVAL"},
                  !.cdata = TRUE, !.cdeval = "static",
                  !.cdflags = {"SEL_CDATA_STATIC"},
                  !.cgrp = s, !.cgrpsz = Cardinality(s), !.cgrpown = TRUE,
                  !.gmin = LastBuf(m1), !.gmax = LastBuf(m1), !.v = LastBuf(m1)]))

RECURSIVE BoundsKids(_, _)
BoundsKids(m, kids) ==
    IF kids = <<>> THEN m ELSE BoundsKids(DynamicKid(m, Head(kids)), Tail(kids))

\* The Boolean op over the children kids, the first one static if asked
\* for, analysed for the group g; the Boolean is the last element.
BoundsMem(op, kids, static, g) ==
    Bind(BoundsKids(IF static THEN StaticKid(EmptyMem, kids[1][2])
                    ELSE DynamicKid(EmptyMem, kids[1]), Tail(kids)), LAMBDA m1 :
    Bind(AllocBuf(AllocBuf(AllocBuf(m1, NewBuf({}, 0)), NewBuf({}, 0)), NewBuf({}, 0)),
         LAMBDA m2 :
    LinkChain(Alloc(m2, [NewElem("SEL_BOOLEAN") EXCEPT
                            !.boolt = op, !.child = 1,
                            !.flags = @ \cup {"SEL_SINGLEVAL", "SEL_DYNAMIC"},
                            !.evaluate = "analyze_static", !.cdata = TRUE,
                            !.cdeval = IF op = "AND" THEN "and" ELSE "or",
                            !.cdflags = {"SEL_CDATA_MINMAXALLOC", "SEL_CDATA_DOMINMAX"},
                            !.gmin = LastBuf(m2) - 2, !.gmax = LastBuf(m2) - 1,
                            !.v = LastBuf(m2), !.ag = G(g)]),
              [i \in 1..Len(kids) |-> i])))

\* The children of an Or are within the group and their gmin do not overlap.
OrKids(kids, g) ==
    /\ \A i \in DOMAIN kids : kids[i][2] \subseteq g
    /\ \A i, j \in DOMAIN kids : i # j => kids[i][1] \cap kids[j][1] = {}

InitBounds ==
    \E op \in {"AND", "OR"}, kids \in KidLists, static \in BOOLEAN :
      \E g \in {Atoms, UNION {kids[i][2] : i \in DOMAIN kids}} :
        /\ static => kids[1][1] = kids[1][2]
        /\ op = "OR" => OrKids(kids, g)
        /\ op = "AND" => g = Atoms
        /\ mem = BoundsMem(op, kids, static, g)
        /\ root = Len(kids) + 1
        /\ pc = "bounds"
        /\ item = NULL
        /\ pre = EmptyMem
        /\ gmx_double = FALSE

\* evaluate_boolean_minmax_grps(sel, g, sel->cdata->gmin, sel->cdata->gmax)
EvaluateMinMax ==
    /\ pc = "bounds"
    /\ mem' = evaluate_boolean_minmax_grps(mem, root, El(mem, root).ag)
    /\ pre' = mem
    /\ pc' = "bounded"
    /\ UNCHANGED <<root, item, gmx_double>>

NextBounds == EvaluateMinMax
SpecBounds == InitBounds /\ [][NextBounds]_vars

\* The intersection and the union of the sets s[i][k].
RECURSIVE MeetOf(_, _), JoinOf(_, _)
MeetOf(s, k) ==
    IF Len(s) = 1 THEN s[1][k] ELSE s[1][k] \cap MeetOf(Tail(s), k)
JoinOf(s, k) ==
    IF s = <<>> THEN {} ELSE s[1][k] \cup JoinOf(Tail(s), k)

\* The first child of p is the static part.
StaticFirstKid(m, p) == "SEL_CDATA_STATIC" \in El(m, El(m, p).child).cdflags

\* C14: evaluate_boolean_minmax_grps leaves an And whose children hold
\* bounds gmin_i within gmax_i with gmin the intersection of all gmin_i and
\* gmax the intersection of all gmax_i, whatever the number of children and
\* also when gmax becomes empty before the last child; the group of a static
\* first child is then gmax if it was a strict superset of gmax, and is
\* unchanged otherwise, as are the bounds of the other children.
C14_AndBounds ==
    (pc = "bounded" /\ IsBool(mem, root, "AND")) =>
        LET e == El(mem, root)
            kb == e.kidb
            c1 == e.child
        IN  /\ mem.err = "none"
            /\ kb = KidBounds(pre, root)
            /\ BufG(mem, e.gmin) = MeetOf(kb, 1)
            /\ BufG(mem, e.gmax) = MeetOf(kb, 2)
            /\ VG(mem, c1) = IF StaticFirstKid(pre, root)
                                 /\ BufG(mem, e.gmax) \subseteq kb[1][3]
                                 /\ BufG(mem, e.gmax) # kb[1][3]
                              THEN BufG(mem, e.gmax) ELSE kb[1][3]
            /\ (StaticFirstKid(pre, root) /\ El(mem, c1).cgrpsz > 0) =>
                   El(mem, c1).cgrp = VG(mem, c1)
            /\ \A i \in 2..Len(kb) : KidBounds(mem, root)[i] = kb[i]

\* An And of three children whose gmax became empty at the second one while
\* the third has atoms in its gmax, and whose static first child was shrunk
\* to the empty gmax.
C14_Witness ==
    /\ pc = "bounded" /\ IsBool(mem, root, "AND")
    /\ Len(El(mem, root).kidb) = 3
    /\ El(mem, root).kidb[1][2] \cap El(mem, root).kidb[2][2] = {}
    /\ El(mem, root).kidb[3][2] # {}
    /\ StaticFirstKid(pre, root)
    /\ VG(pre, El(mem, root).child) # {}
    /\ VG(mem, El(mem, root).child) = {}

\* The compiler together with evaluate_boolean_minmax_grps on its own.
InitAnalysis == Init \/ InitBounds
NextAnalysis == Next \/ NextBounds
SpecAnalysis == InitAnalysis /\ [][NextAnalysis]_vars

\* The Ors evaluate_boolean_minmax_grps was entered for.
BoundedOrs ==
    {p \in DOMAIN mem.el :
        mem.el[p].type = "SEL_BOOLEAN" /\ mem.el[p].boolt = "OR" /\ mem.el[p].kidb # <<>>}

\* The gmin of the children kb do not overlap.
DisjointMin(kb) == \A i, j \in DOMAIN kb : i # j => kb[i][1] \cap kb[j][1] = {}

\* C15: evaluate_boolean_minmax_grps leaves an Or, analysed for the group g,
\* whose children hold bounds gmin_i within gmax_i within g with the gmin_i
\* pairwise disjoint, with gmin the union of all gmin_i and gmax the union
\* of all gmax_i, also when gmin has the size of g before the last child;
\* and whenever the analysis of a collection enters the function for an Or,
\* the gmin of its children are pairwise disjoint.
C15_OrBounds ==
    \A p \in BoundedOrs :
        LET e == mem.el[p]
            kb == e.kidb
        IN  /\ (/\ e.live /\ e.cdata /\ e.gmin # NULL /\ e.gmax # NULL
                /\ DisjointMin(kb)
                /\ \A i \in DOMAIN kb : kb[i][1] \subseteq kb[i][2] /\ kb[i][2] \subseteq e.ag.s)
                  => /\ BufG(mem, e.gmin) = JoinOf(kb, 1)
                     /\ BufG(mem, e.gmax) = JoinOf(kb, 2)
            /\ pc \notin {"bounds", "bounded"} => DisjointMin(kb)

\* The analysis of a collection entered the function for an Or two of whose
\* children have atoms in their gmin.
C15_Witness ==
    /\ pc \notin {"bounds", "bounded"}
    /\ \E p \in BoundedOrs :
           /\ mem.el[p].live /\ mem.el[p].cdata
           /\ \E i, j \in DOMAIN mem.el[p].kidb :
                  i # j /\ mem.el[p].kidb[i][1] # {} /\ mem.el[p].kidb[j][1] # {}

\* ---------------------------------------------------------------------
\* Subexpressions.

\* The subexpressions and the references of the forest.
Subexprs == {p \in Forest : El(mem, p).type = "SEL_SUBEXPR"}
SubexprRefs == {p \in Forest : El(mem, p).type = "SEL_SUBEXPRREF"}

HasCd(p, f) == El(mem, p).cdata /\ f \in El(mem, p).cdflags

\* The reference p, its subexpression and the subexpression's body have one
\* value buffer.
OneBuffer(p) ==
    /\ El(mem, p).v # NULL
    /\ El(mem, El(mem, p).child).v = El(mem, p).v
    /\ El(mem, El(mem, El(mem, p).child).child).v = El(mem, p).v

\* The states from the end of the loop over init_item_subexpr_flags and
\* init_item_evaloutput to the release of the compiler data.
Annotated == pc \in {"minmax", "pass1", "prune1", "pass2", "prune2", "final"}

\* C16 as stated: in every annotated state a Subexpr with reference count 2
\* is flagged SIMPLESUBEXPR.
C16_CountTwoIsSimple ==
    Annotated =>
        \A p \in Subexprs :
            (El(mem, p).cdata /\ El(mem, p).refcount = 2) =>
                "SEL_CDATA_SIMPLESUBEXPR" \in El(mem, p).cdflags

\* C16: when the loop over init_item_subexpr_flags and init_item_evaloutput
\* is over, a Subexpr is flagged SIMPLESUBEXPR exactly if its reference
\* count is 2, and so is its reference; from then on, a Group- or
\* Position-valued reference flagged SIMPLESUBEXPR, its Subexpr and the
\* body of the Subexpr point to one and the same value buffer.
C16_SimpleSubexprOneBuffer ==
    /\ pc = "minmax" =>
           /\ \A p \in Subexprs :
                  El(mem, p).refcount = 2 <=> HasCd(p, "SEL_CDATA_SIMPLESUBEXPR")
           /\ \A p \in SubexprRefs :
                  El(mem, El(mem, p).child).refcount = 2
                      <=> HasCd(p, "SEL_CDATA_SIMPLESUBEXPR")
    /\ Annotated =>
           \A p \in SubexprRefs :
               HasCd(p, "SEL_CDATA_SIMPLESUBEXPR") =>
                   /\ El(mem, El(mem, p).child).cdata =>
                          HasCd(El(mem, p).child, "SEL_CDATA_SIMPLESUBEXPR")
                   /\ El(mem, El(mem, p).child).refcount = 2
                   /\ El(mem, p).vtype \in {"GROUP_VALUE", "POS_VALUE"} => OneBuffer(p)

\* After the second pass the forest holds a frame-dependent Group-valued
\* reference flagged SIMPLESUBEXPR and a Position-valued one.
C16_Witness ==
    /\ pc = "prune2"
    /\ \E p, q \in SubexprRefs :
           /\ HasCd(p, "SEL_CDATA_SIMPLESUBEXPR") /\ HasCd(q, "SEL_CDATA_SIMPLESUBEXPR")
           /\ El(mem, p).vtype = "GROUP_VALUE" /\ IsDyn(mem, p)
           /\ El(mem, q).vtype = "POS_VALUE"

\* The references to the subexpression p.
RefsTo(p) == {q \in SubexprRefs : El(mem, q).child = p}

\* C17 as stated: a Subexpr carries COMMONSUBEXPR exactly if its reference
\* count is above 2 and it is not FULLEVAL.
C17_CommonIffSharedNotFullEval ==
    pc = "minmax" =>
        \A p \in Subexprs :
            HasCd(p, "SEL_CDATA_COMMONSUBEXPR")
                <=> (El(mem, p).refcount > 2 /\ ~HasCd(p, "SEL_CDATA_FULLEVAL"))

\* C17: when init_item_subexpr_flags has run over the whole forest, every
\* Subexpr with a reference count above 2 that is not FULLEVAL carries
\* COMMONSUBEXPR; a Subexpr that carries COMMONSUBEXPR has a reference count
\* above 2 and does not carry SIMPLESUBEXPR; and one that carries both
\* COMMONSUBEXPR and FULLEVAL is referenced from within a common
\* subexpression, by a reference that carries COMMONSUBEXPR.
C17_CommonSubexprFlags ==
    pc = "minmax" =>
        \A p \in Subexprs :
            /\ (El(mem, p).refcount > 2 /\ ~HasCd(p, "SEL_CDATA_FULLEVAL"))
                   => HasCd(p, "SEL_CDATA_COMMONSUBEXPR")
            /\ HasCd(p, "SEL_CDATA_COMMONSUBEXPR") =>
                   /\ El(mem, p).refcount > 2
                   /\ ~HasCd(p, "SEL_CDATA_SIMPLESUBEXPR")
                   /\ HasCd(p, "SEL_CDATA_FULLEVAL") =>
                          \E q \in RefsTo(p) : HasCd(q, "SEL_CDATA_COMMONSUBEXPR")

\* The forest holds a common subexpression that is not FULLEVAL and,
\* referenced from its body, a FULLEVAL one that carries COMMONSUBEXPR.
C17_Witness ==
    /\ pc = "minmax"
    /\ \E p, q \in Subexprs :
           /\ HasCd(p, "SEL_CDATA_COMMONSUBEXPR") /\ ~HasCd(p, "SEL_CDATA_FULLEVAL")
           /\ HasCd(q, "SEL_CDATA_COMMONSUBEXPR") /\ HasCd(q, "SEL_CDATA_FULLEVAL")
           /\ \E r \in RefsTo(q) : r \in Subtree(mem, p)

\* ---------------------------------------------------------------------
\* The operands of the compiled Boolean elements.

\* The frame-dependent Ands and Ors of the forest.
DynamicAndOrs ==
    {p \in Forest : (IsBool(mem, p, "AND") \/ IsBool(mem, p, "OR")) /\ IsDyn(mem, p)}

\* The operands of p after the first are frame-dependent and stand in the
\* order they were parsed in (the parser allocates the elements of an
\* expression from left to right); the first, if static, is a constant.
OperandsInOrder(p) ==
    LET kids == Children(mem, p)
    IN  /\ ~IsDyn(mem, kids[1]) => IsConst(mem, kids[1])
        /\ \A i \in 2..Len(kids) : IsDyn(mem, kids[i])
        /\ \A i, j \in 1..Len(kids) :
               (i < j /\ IsDyn(mem, kids[i]) /\ IsDyn(mem, kids[j])) => kids[i] < kids[j]

ChainRoots == {Roots(mem)[i] : i \in DOMAIN Roots(mem)}

\* The child of root r as init_root_item found it.
FinalChild(r) == El(mem, r).fin[1]

\* The child of root r needs no evaluation group: its value has a variable
\* number of elements, or is a single value that is not a group.
NoGroupNeeded(r) ==
    LET x == El(mem, El(mem, r).child)
    IN  \/ "SEL_VARNUMVAL" \in x.flags
        \/ ("SEL_SINGLEVAL" \in x.flags /\ x.vtype # "GROUP_VALUE")

ParentsOf(p) ==
    {q \in Forest : /\ El(mem, q).type # "SEL_SUBEXPRREF"
                    /\ \E i \in DOMAIN Children(mem, q) : Children(mem, q)[i] = p}

\* p is a frame-dependent operand of a Boolean element.
DynamicOperand(p) ==
    \E q \in ParentsOf(p) : El(mem, q).type = "SEL_BOOLEAN" /\ IsDyn(mem, p)

\* p is the body of a subexpression with more than one reference.
SharedBody(p) ==
    \E q \in ParentsOf(p) : El(mem, q).type = "SEL_SUBEXPR" /\ El(mem, q).refcount > 2

\* p is the body of a subexpression that is evaluated with
\* _gmx_sel_evaluate_subexpr: it had more than one reference when the
\* evaluation functions were set and is not evaluated statically.
GrowingBody(p) ==
    \E q \in ParentsOf(p) : El(mem, q).type = "SEL_SUBEXPR" /\ El(mem, q).evaluate = "subexpr"

\* p is the body of a subexpression with one reference, and that reference
\* is pool-backed.
PooledReferenceBody(p) ==
    \E q \in ParentsOf(p) :
        /\ El(mem, q).type = "SEL_SUBEXPR" /\ El(mem, q).evaluate = "subexpr_simple"
        /\ \E r \in RefsTo(q) : El(mem, r).mempool

ItemChild == El(mem, item).child

\* The child of root r is flagged as a common subexpression.
IsCommon(r) == "SEL_CDATA_COMMONSUBEXPR" \in El(mem, El(mem, r).child).cdflags

\* One iteration of the second analysis loop: an item whose child is not a
\* common subexpression leaves everything as it is; the child of any other
\* item is un-forced (STATIC on exactly the nodes of its subtree that are
\* not SEL_DYNAMIC), its evaluation group afterwards is the gmax it had, and
\* its gmin, gmax and compiler flags are what they were.
SecondPassStep ==
    /\ ~IsCommon(item) => mem' = mem
    /\ IsCommon(item) =>
           \A q \in Subtree(mem, ItemChild) :
               "SEL_CDATA_STATIC" \in El(mark_subexpr_dynamic(mem, ItemChild, FALSE), q).cdflags
                   <=> ~IsDyn(mem, q)
    /\ (IsCommon(item) /\ mem'.err = "none") =>
           /\ El(mem', item).pass2 = <<BufG(mem, El(mem, ItemChild).gmax)>>
           /\ El(mem', ItemChild).cgrp = BufG(mem, El(mem, ItemChild).gmax)
           /\ El(mem', ItemChild).cgrpsz = Cardinality(El(mem', ItemChild).cgrp)
           /\ El(mem', ItemChild).gmin = El(mem, ItemChild).gmin
           /\ El(mem', ItemChild).gmax = El(mem, ItemChild).gmax
           /\ BufG(mem', El(mem', ItemChild).gmin) = BufG(mem, El(mem, ItemChild).gmin)
           /\ BufG(mem', El(mem', ItemChild).gmax) = BufG(mem, El(mem, ItemChild).gmax)
           /\ El(mem', ItemChild).cdflags = El(mem, ItemChild).cdflags

\* When the second loop is over it has analysed the child of every root
\* with a common subexpression once, and of no other root.
SecondPassOver ==
    pc = "prune2" =>
        \A r \in ChainRoots : Len(El(mem, r).pass2) = IF IsCommon(r) THEN 1 ELSE 0

\* C21: the second analysis pass re-analyses exactly the roots whose child is
\* flagged COMMONSUBEXPR, each once, after un-forcing the subtree and with
\* the evaluation group reset, against the gmax of the first pass, and
\* leaves gmin, gmax and DOMINMAX of the subexpression as they were.
C21_SecondPass ==
    [][pc = "pass2" => SecondPassStep]_vars /\ []SecondPassOver

\* The second pass is over; it analysed a common subexpression for a
\* non-empty gmax that is not the evaluation group the first pass left, and
\* folded a static operand inside it.
C21_Witness ==
    /\ pc = "prune2"
    /\ \E r \in ChainRoots :
           /\ IsCommon(r) /\ El(mem, r).pass2 # <<{}>>
           /\ \E q \in Subtree(mem, El(mem, r).child) : El(mem, q).folded = "static"
    /\ \E r \in ChainRoots : ~IsCommon(r)

\* ---------------------------------------------------------------------
\* The first analysis pass and the common subexpressions.

\* The elements mark_subexpr_dynamic reaches from p: the subtree of p,
\* references followed, without the parameters of methods that are not
\* evaluated for each atom.
RECURSIVE MarkedNodes(_, _), MarkedKids(_, _, _)
MarkedKids(m, sel, c) ==
    IF c = NULL THEN {}
    ELSE (IF El(m, sel).type # "SEL_EXPRESSION" \/ El(m, c).type # "SEL_SUBEXPRREF"
             \/ "SPAR_ATOMVAL" \in El(m, c).mflags
          THEN MarkedNodes(m, c) ELSE {})
           \cup MarkedKids(m, sel, El(m, c).next)

MarkedNodes(m, p) == {p} \cup MarkedKids(m, p, El(m, p).child)

\* The roots of common subexpressions that the second pass has not come to.
CommonBeforePass2 ==
    {r \in ChainRoots : pc \in {"pass1", "prune1", "pass2"}
                          /\ IsCommon(r) /\ El(mem, r).pass2 = <<>>}

\* No element of S has been made a constant, and none has STATIC.
Forced(S) ==
    \A q \in S : El(mem, q).folded = "no" /\ "SEL_CDATA_STATIC" \notin El(mem, q).cdflags

\* C22 as stated: between the first pass over a common subexpression and
\* the second, no descendant of the subexpression, the parameters of the
\* methods inside it included, has STATIC or has been made a constant.
C22_NoDescendantFolded ==
    \A r \in CommonBeforePass2 :
        El(mem, r).analysed => Forced(Subtree(mem, El(mem, r).child))

\* C22: until the second pass comes to a common subexpression, no element
\* that mark_subexpr_dynamic reaches from it has been made a constant, and
\* from the first pass over it on none of them has STATIC; the parameters of
\* a method that are not evaluated for each atom are not among them.
C22_CommonForcedDynamic ==
    \A r \in CommonBeforePass2 :
        \A q \in MarkedNodes(mem, El(mem, r).child) :
            /\ El(mem, q).folded = "no"
            /\ El(mem, r).analysed => "SEL_CDATA_STATIC" \notin El(mem, q).cdflags

\* The first pass is over: a common subexpression holds a static operand
\* that is still an expression without STATIC, and the parameter of a method
\* inside it has been made a constant.
C22_Witness ==
    /\ pc = "prune1"
    /\ \E r \in CommonBeforePass2 :
           /\ \E q \in MarkedNodes(mem, El(mem, r).child) :
                  ~IsDyn(mem, q) /\ El(mem, q).type = "SEL_EXPRESSION" /\ El(mem, q).analysed
           /\ \E q \in Subtree(mem, El(mem, r).child) : El(mem, q).folded = "static"

\* ---------------------------------------------------------------------
\* The flags of the evaluation groups.

\* The first loop of compile is over and the compiler data is in place.
FlagsInitialized == pc \in {"flags", "minmax", "pass1", "prune1", "pass2", "prune2"}

\* C23: once the first loop of compile has given every item its compiler
\* flags, every subexpression with FULLEVAL has STATICEVAL, whatever the
\* order of the references to it.
C23_FullEvalHasStaticEval ==
    FlagsInitialized =>
        \A p \in Subexprs :
            HasCd(p, "SEL_CDATA_FULLEVAL") => HasCd(p, "SEL_CDATA_STATICEVAL")

\* The flags are those the first loop left: no analysis has run yet.
FlagsPropagated == pc \in {"flags", "minmax"}

LacksStaticEval(p) == El(mem, p).cdata /\ "SEL_CDATA_STATICEVAL" \notin El(mem, p).cdflags

\* The operands of q that follow its first frame-dependent operand.
OperandsAfterDynamic(q) ==
    LET ch == Children(mem, q)
    IN  {ch[j] : j \in {j \in DOMAIN ch : \E i \in 1 .. j - 1 : IsDyn(mem, ch[i])}}

\* The children of p that init_item_staticeval leaves alone when p has no
\* STATICEVAL.
KeepsOwnGroup(p, c) ==
    \/ IsMethod(El(mem, p)) /\ "SEL_ATOMVAL" \notin El(mem, c).flags
    \/ El(mem, p).type = "SEL_SUBEXPRREF" /\ HasCd(c, "SEL_CDATA_FULLEVAL")

\* C24: after init_item_staticeval has run over all items, (a) every operand
\* of a Boolean element that follows the first frame-dependent operand has
\* no STATICEVAL, and (b) the children of an element without STATICEVAL have
\* none either, except the parameters of a method that are not evaluated
\* for each atom and the subexpression with FULLEVAL behind a reference.
C24_StaticEvalPropagated ==
    FlagsPropagated =>
        /\ \A q \in {q \in Forest : El(mem, q).type = "SEL_BOOLEAN"} :
               \A c \in OperandsAfterDynamic(q) : LacksStaticEval(c)
        /\ \A p \in {p \in Forest : LacksStaticEval(p)} :
               \A c \in Range(Children(mem, p)) :
                   LacksStaticEval(c) \/ KeepsOwnGroup(p, c)

\* Both parts and both exceptions of C24 occur in one forest.
C24_Witness ==
    /\ pc = "minmax"
    /\ \E q \in Forest : El(mem, q).type = "SEL_BOOLEAN" /\ OperandsAfterDynamic(q) # {}
    /\ \E p \in Forest : \E c \in Range(Children(mem, p)) :
           LacksStaticEval(p) /\ LacksStaticEval(c) /\ ~KeepsOwnGroup(p, c)
    /\ \E p \in Forest : \E c \in Range(Children(mem, p)) :
           LacksStaticEval(p) /\ HasCd(c, "SEL_CDATA_STATICEVAL")

\* The parameters of the methods that are evaluated for each atom.
AtomValParams == {<<q, c>> \in Forest \X Forest :
                     /\ IsMethod(El(mem, q)) /\ El(mem, q).cdata
                     /\ c \in Range(Children(mem, q))
                     /\ "SEL_ATOMVAL" \in El(mem, c).flags}

\* C25 as stated: the per-atom parameters of a frame-dependent method have
\* no STATICEVAL, whether or not the method has it.
C25_AtomValParamCleared ==
    FlagsPropagated =>
        \A qc \in AtomValParams : IsDyn(mem, qc[1]) => LacksStaticEval(qc[2])

\* C25: a per-atom parameter of a method has STATICEVAL exactly when the
\* method has it; the flag is cleared with the method's, not because the
\* method depends on the frame.
C25_AtomValParamFollowsMethod ==
    FlagsPropagated =>
        \A qc \in AtomValParams : LacksStaticEval(qc[2]) <=> LacksStaticEval(qc[1])

\* A frame-dependent method that follows a frame-dependent operand: it and
\* its per-atom parameter have lost STATICEVAL.
C25_Witness ==
    /\ pc = "minmax"
    /\ \E qc \in AtomValParams :
           IsDyn(mem, qc[1]) /\ LacksStaticEval(qc[1]) /\ LacksStaticEval(qc[2])

\* ---------------------------------------------------------------------
\* The removal of the unused subexpressions.

\* The roots among rs whose subexpression is referenced from the trees of
\* the roots in S only.
UnusedGiven(m, rs, S) ==
    {r \in rs :
        /\ El(m, El(m, r).child).type = "SEL_SUBEXPR"
        /\ El(m, El(m, r).child).refcount
              - Cardinality({p \in UNION {RefsOf(m, q) : q \in S} :
                                El(m, p).child = El(m, r).child}) = 1}

\* The dead roots of rs: those without references, and those that lose
\* their last reference when the dead roots are freed.
RECURSIVE DeadRoots(_, _, _)
DeadRoots(m, rs, S) ==
    LET T == UnusedGiven(m, rs, S)
    IN  IF T = S THEN S ELSE DeadRoots(m, rs, T)

\* The root of every referenced subexpression precedes the references.
DefinedBeforeUse(m, rs) ==
    \A i \in DOMAIN rs : \A p \in RefsOf(m, rs[i]) :
        El(m, El(m, p).child).type = "SEL_SUBEXPR" =>
            \E j \in 1 .. (i - 1) : El(m, rs[j]).child = El(m, p).child

\* One call of remove_unused_subexpressions on a chain with a root that is
\* not dead: the dead roots are freed, the others stay in their order, and
\* no unused root is left.
RemovalStep ==
    LET before == ChainFrom(mem, root)
        dead   == DeadRoots(mem, Range(before), {})
        after  == ChainFrom(mem', root')
    IN  (/\ pc \in {"prune0", "prune1", "prune2"}
         /\ DefinedBeforeUse(mem, before)
         /\ dead # Range(before)) =>
            /\ mem'.err = "none"
            /\ after = SelectSeq(before, LAMBDA r : r \notin dead)
            /\ \A r \in dead : ~mem'.el[r].live
            /\ \A r \in Range(after) : mem'.el[r].live /\ ~IsUnusedRoot(mem', r)

\* C26: on a chain where definitions precede uses and some root is not
\* dead, one call of remove_unused_subexpressions removes exactly the roots
\* whose subexpression has reference count 1 or reaches it when a dead root
\* that references it is freed in the same call, and keeps the other roots
\* in their order.
C26_RemovalFixpoint == [][RemovalStep]_vars

\* The first pruning has freed a root whose subexpression was referenced
\* once before the call, by a subexpression that was itself unused, and has
\* kept another root.
C26_Witness ==
    /\ pc = "extract"
    /\ root # NULL
    /\ \E r \in LiveEl(pre) :
           /\ pre.el[r].type = "SEL_ROOT"
           /\ El(pre, El(pre, r).child).type = "SEL_SUBEXPR"
           /\ El(pre, El(pre, r).child).refcount = 2
           /\ ~mem.el[r].live

\* ---------------------------------------------------------------------
\* The extraction of the subexpressions.

\* The references of the forest of m below the chain r.
RefNodes(m, r) == {p \in Nodes(m, r) : El(m, p).type = "SEL_SUBEXPRREF"}

\* The child of the reference p is not yet a subexpression with a name.
NeedsExtraction(m, p) ==
    \/ El(m, El(m, p).child).type # "SEL_SUBEXPR"
    \/ El(m, El(m, p).child).name = NULL

\* The roots of the chain r of m whose child is s.
RootsOf(m, r, s) == {q \in Range(ChainFrom(m, r)) : El(m, q).child = s}

\* The subexpressions of the forest of m that carry a generated name.
Generated(m, r) ==
    {s \in Nodes(m, r) : /\ El(m, s).type = "SEL_SUBEXPR"
                         /\ El(m, s).name # NULL /\ El(m, s).name < VarName0}

\* One call of extract_subexpressions.
ExtractionStep ==
    LET refs   == RefNodes(mem, root)
        bodies == {El(mem, p).child : p \in {p \in refs : NeedsExtraction(mem, p)}}
        gen    == Generated(mem', root')
    IN  pc = "extract" =>
          /\ \A p \in refs :
                LET cc == El(mem, p).child
                    s  == El(mem', p).child
                IN  CASE El(mem, cc).type # "SEL_SUBEXPR" ->
                           /\ s \notin DOMAIN mem.el
                           /\ El(mem', s).type = "SEL_SUBEXPR"
                           /\ El(mem', s).child = cc
                           /\ El(mem', s).refcount = 2
                           /\ s \in gen
                      [] El(mem, cc).type = "SEL_SUBEXPR" /\ El(mem, cc).name = NULL ->
                           /\ s = cc
                           /\ El(mem', s).refcount = El(mem, s).refcount + 1
                           /\ s \in gen
                      [] OTHER ->
                           /\ s = cc
                           /\ El(mem', s).refcount = El(mem, s).refcount
                           /\ El(mem', s).name = El(mem, s).name
          /\ \A p \in RefNodes(mem', root') :
                /\ ~NeedsExtraction(mem', p)
                /\ Cardinality(RootsOf(mem', root', El(mem', p).child)) = 1
          /\ Cardinality(gen) = Cardinality(bodies)
          /\ {El(mem', s).name : s \in gen} = 1 .. Cardinality(bodies)
          /\ Len(ChainFrom(mem', root')) = Len(ChainFrom(mem, root)) + Cardinality(bodies)

\* C27: extract_subexpressions extracts the child of a node exactly when
\* the node is a reference whose child is not a subexpression or is one
\* without a name, each subexpression once however many references lead to
\* it; afterwards every reference points to a named subexpression that is
\* the child of exactly one root, the generated names are 1, 2, ... without
\* repetition, and each extraction adds one to the reference count.
C27_Extraction == [][ExtractionStep]_vars

\* The extraction is over: a subexpression without a name that two
\* references shared has been extracted once, next to a variable that was
\* not, and to another generated subexpression.
C27_Witness ==
    /\ pc = "init" /\ item = root
    /\ \E s \in Generated(mem, root) :
           /\ El(mem, s).refcount = 3
           /\ Cardinality({p \in RefNodes(mem, root) : El(mem, p).child = s}) = 2
    /\ Cardinality(Generated(mem, root)) >= 2

\* ---------------------------------------------------------------------
\* The ownership of the value buffers.

\* The live elements whose value is stored in buffer b and that carry the
\* ownership flag f.
Owners(b, f) == {p \in LiveEl(mem) : El(mem, p).v = b /\ f \in El(mem, p).flags}

\* The value buffers the live elements point to.
ValueBuffers == {El(mem, p).v : p \in LiveEl(mem)} \ {NULL}

\* C28: at every point of compile, of the elements that store their value in
\* one buffer (a reference, its subexpression and the body of the
\* subexpression when the value is shared) at most one carries SEL_ALLOCVAL
\* and at most one carries SEL_ALLOCDATA, and the buffer of an owner has not
\* been freed.
C28_SingleOwner ==
    /\ \A b \in ValueBuffers : \A f \in {"SEL_ALLOCVAL", "SEL_ALLOCDATA"} :
           Cardinality(Owners(b, f)) <= 1
    /\ \A b \in ValueBuffers : Owners(b, "SEL_ALLOCVAL") # {} => mem.buf[b].live

\* compile has returned: a constant that make_static made owns its buffer,
\* and a reference that was not folded shares one buffer with its
\* subexpression and the body and is, after postprocess_item_subexpressions,
\* the one owner of it.
C28_Witness ==
    /\ pc = "done"
    /\ \E p \in Forest :
           /\ El(mem, p).folded = "static" /\ El(mem, p).v # NULL
           /\ Owners(El(mem, p).v, "SEL_ALLOCDATA") = {p}
    /\ \E p \in SubexprRefs :
           /\ OneBuffer(p)
           /\ Owners(El(mem, p).v, "SEL_ALLOCVAL") = {p}
           /\ Owners(El(mem, p).v, "SEL_ALLOCDATA") = {p}

\* ---------------------------------------------------------------------
\* The compiler data behind the references.

\* The roots of the chain before the root it.
RootsBefore(m, it) ==
    LET rs == Roots(m)
    IN  {rs[j] : j \in {j \in DOMAIN rs : \E i \in DOMAIN rs : rs[i] = it /\ j < i}}

\* The roots of the chain from the root it on.
RootsFrom(m, it) == Range(Roots(m)) \ RootsBefore(m, it)

\* One completed call of remove_unused_subexpressions: on a chain whose
\* roots are all dead it frees them and returns the empty chain.
RemovalCompletes ==
    pc \in {"prune0", "prune1", "prune2"} =>
        /\ mem'.err = "none"
        /\ (\A r \in Range(ChainFrom(mem, root)) : IsUnusedRoot(mem, r)) =>
               root' = NULL /\ \A r \in Range(ChainFrom(mem, root)) : ~mem'.el[r].live

\* C29: remove_unused_subexpressions completes for every chain, also for
\* one in which every root holds a subexpression with reference count 1: it
\* frees them all and returns the empty chain, and reads no null root.
C29_RemovalCompletes == [][RemovalCompletes]_vars

\* C30: whenever a loop of compile is about to read the compiler data of a
\* subexpression through a reference or a root, the data exists.  In the
\* first loop the subexpressions the item refers to belong to roots earlier
\* in the chain, which have their data; in the two analysis loops and in
\* the last loop the child of the item, and of every root still to come,
\* has its data: no stub that release_subexpr_memory left is ahead; in the
\* analysis loops so has every subexpression these roots refer to.
C30_AnnotationExists ==
    /\ (pc = "init" /\ item # NULL) =>
           \A p \in RefsOf(mem, item) :
               /\ El(mem, El(mem, p).child).type = "SEL_SUBEXPR"
               /\ El(mem, El(mem, p).child).cdata
               /\ \E r \in RootsBefore(mem, item) : El(mem, r).child = El(mem, p).child
    /\ (pc \in {"pass1", "pass2", "final"} /\ item # NULL) =>
           \A r \in RootsFrom(mem, item) :
               /\ El(mem, r).child # NULL
               /\ El(mem, El(mem, r).child).cdata
               /\ pc # "final" =>
                      \A p \in RefsOf(mem, r) : El(mem, El(mem, p).child).cdata

\* The second analysis loop has reached the root of a common subexpression
\* after the first pass left the stub of a folded reference behind and the
\* pruning removed it.
C30_Witness ==
    /\ pc = "pass2" /\ item # NULL
    /\ HasCd(El(mem, item).child, "SEL_CDATA_COMMONSUBEXPR")
    /\ \E s \in LiveEl(pre) :
           /\ pre.el[s].type = "SEL_SUBEXPR" /\ pre.el[s].child = NULL
           /\ ~mem.el[s].live

\* ---------------------------------------------------------------------
\* Errors of the compilation.

\* A Boolean Xor was parsed into the collection.
XorParsed ==
    \E p \in DOMAIN mem.el : mem.el[p].type = "SEL_BOOLEAN" /\ mem.el[p].boolt = "XOR"

\* A Boolean Xor is in the forest.
XorInForest == \E p \in Forest : IsBool(mem, p, "XOR")

\* analyze_static is the evaluation function of some element.
AnalysisInstalled ==
    \E p \in DOMAIN mem.el : mem.el[p].evaluate = "analyze_static"

\* C11 as stated: the compilation of every collection into which a Xor was
\* parsed fails with the unsupported-expression error.
C11_EveryXorFails ==
    XorParsed =>
        /\ pc \in {"prune0", "extract", "init", "failed"}
        /\ pc = "failed" => ErrorKind(mem.err) = "UnsupportedExpression"

\* C11: a Xor that is left in the forest by the first removal of the unused
\* subexpressions makes the compilation fail in init_item_evalfunc with the
\* unsupported-expression error: no Xor is in the forest after the first
\* loop, and in the failed state no element has analyze_static as its
\* evaluation function, no Xor has compiler data, and so
\* evaluate_boolean_minmax_grps was never entered for a Xor.
C11_XorFailsAtInit ==
    /\ pc \notin {"prune0", "extract", "init", "failed"} => ~XorInForest
    /\ (pc = "failed" /\ XorInForest) =>
           /\ mem.err = "NotImplementedError"
           /\ ErrorKind(mem.err) = "UnsupportedExpression"
           /\ ~AnalysisInstalled
    /\ \A p \in DOMAIN mem.el :
           (mem.el[p].type = "SEL_BOOLEAN" /\ mem.el[p].boolt = "XOR") =>
               /\ ~mem.el[p].cdata
               /\ mem.el[p].evaluate \notin {"analyze_static", "and", "or", "not"}

\* The compilation failed on the Xor of the second selection after
\* init_item_evalfunc had set up the first one.
C11_Witness ==
    /\ pc = "failed" /\ XorInForest /\ mem.err = "NotImplementedError"
    /\ \E p \in Forest : El(mem, p).type = "SEL_ROOT" /\ El(mem, p).evaluate = "root"

\* C12: when compile fails with one of its errors, the collection is
\* cleared: no element of it is left holding compiler data or analyze_static
\* as its evaluation function.
C12_FailureClearsCollection ==
    (pc = "failed" /\ ErrorKind(mem.err) \in {"UnsupportedExpression", "InternalInconsistency"}) =>
        \A p \in Forest : ~El(mem, p).cdata /\ El(mem, p).evaluate # "analyze_static"

\* ---------------------------------------------------------------------
\* The bounds of the static analysis.

\* The real evaluation function of p: the one saved in its compiler data
\* while it has compiler data.
RealEvaluate(m, p) == IF El(m, p).cdata THEN El(m, p).cdeval ELSE El(m, p).evaluate

\* The frame-dependent methods whose result the value of p depends on.
RECURSIVE FrameLeaves(_, _)
FrameLeaves(m, p) ==
    IF p = NULL THEN {}
    ELSE CASE IsMethod(El(m, p)) -> IF IsDyn(m, p) THEN {p} ELSE {}
           [] OTHER -> UNION {FrameLeaves(m, c) : c \in Range(Children(m, p))}

\* The result of evaluating p for the group g in a frame fr, which gives
\* the atoms each frame-dependent method selects among all atoms:
\* _gmx_sel_evaluate_and / _or / _not / _static / _method / _subexpr* on
\* the first evaluation of a frame.
RECURSIVE ActualResult(_, _, _, _)
RECURSIVE ActualAnd(_, _, _, _), ActualOr(_, _, _, _, _)
ActualAnd(m, child, fr, r) ==
    IF child = NULL \/ r = {} THEN r
    ELSE ActualAnd(m, El(m, child).next, fr, r \cap ActualResult(m, child, r, fr))

ActualOr(m, child, fr, r, tmp) ==
    IF child = NULL \/ tmp = {} THEN r
    ELSE ActualOr(m, El(m, child).next, fr,
                  r \cup (tmp \cap ActualResult(m, child, tmp, fr)),
                  tmp \ ActualResult(m, child, tmp, fr))

ActualResult(m, p, g, fr) ==
    LET e == El(m, p)
        f == RealEvaluate(m, p)
        c0 == e.child
        first == IF RealEvaluate(m, c0) = "NULL" THEN El(m, c0).next ELSE c0
    IN  CASE f = "NULL" -> VG(m, p)
          [] f = "static" -> e.cgrp \cap g
          [] f = "method" -> IF IsDyn(m, p) THEN fr[p] \cap g ELSE e.meth \cap g
          [] f = "not" -> g \ ActualResult(m, c0, g, fr)
          [] f = "and" ->
               ActualAnd(m, El(m, first).next, fr, ActualResult(m, first, g, fr))
          [] f = "or" ->
               ActualOr(m, El(m, c0).next, fr, g \cap ActualResult(m, c0, g, fr),
                        g \ ActualResult(m, c0, g, fr))
          [] f \in {"subexpr", "subexpr_simple", "subexpr_staticeval"} ->
               ActualResult(m, c0, g, fr)
          [] f \in {"subexprref", "subexprref_simple"} ->
               g \cap ActualResult(m, c0, g, fr)
          [] OTHER -> {}

\* The frame-dependent Group-valued nodes that hold bounds computed for a
\* group.
Bounded ==
    {p \in Forest :
        /\ El(mem, p).cdata /\ IsDyn(mem, p) /\ El(mem, p).vtype = "GROUP_VALUE"
        /\ "SEL_CDATA_DOMINMAX" \in El(mem, p).cdflags
        /\ El(mem, p).gmin # NULL /\ El(mem, p).gmax # NULL
        /\ ~El(mem, p).ag.null}

====
